---- MODULE Spec2Model ----
(***************************************************************************)
(* Dual-protocol router gateway (MikroTik API backend).                    *)
(*                                                                         *)
(* The model covers the upsert-automation engine (dhcp-client/update),     *)
(* the WAN failover status/toggle endpoints, the generic gateway endpoint  *)
(* and the legacy safe command executor, each on both protocol variants.   *)
(*                                                                         *)
(* Instants are whole seconds counted from 2026-01-01T00:00:00Z.  Text is  *)
(* a sequence of tokens so that interpolation and parsing are computed.    *)
(***************************************************************************)
EXTENDS Integers, Sequences, FiniteSets, TLC

\* An optional request-body or record field: None when the key is missing.
None == [has |-> FALSE]
Some(v) == [has |-> TRUE, v |-> v]

\* ------------------------------------------------------------------ bounds
MaxGraceDays == 2
MaxCalls == 2
MaxFaults == 1
MaxRaceCalls == 2
MaxItems == 2
MaxGatewayCalls == 1
MaxAddressLen == 3

\* ------------------------------------------------------- calendar and time
SecPerDay == 24 * 60 * 60

EpochYear == 2026

IsLeap(y) == (y % 4 = 0 /\ y % 100 # 0) \/ y % 400 = 0

YearLen(y) == IF IsLeap(y) THEN 366 ELSE 365

MonthLen(y, m) ==
    IF m = 2 THEN (IF IsLeap(y) THEN 29 ELSE 28)
    ELSE IF m \in {4, 6, 9, 11} THEN 30 ELSE 31

RECURSIVE YearOfDay(_, _)
YearOfDay(d, y) ==
    IF d < YearLen(y) THEN <<y, d>> ELSE YearOfDay(d - YearLen(y), y + 1)

RECURSIVE MonthOfDay(_, _, _)
MonthOfDay(d, y, m) ==
    IF d < MonthLen(y, m) THEN <<m, d + 1>> ELSE MonthOfDay(d - MonthLen(y, m), y, m + 1)

\* Calendar fields of the day number d (days since the epoch day).
DateFields(d) ==
    LET yd == YearOfDay(d, EpochYear)
        md == MonthOfDay(yd[2], yd[1], 1)
    IN  [year |-> yd[1], month |-> md[1], day |-> md[2]]

\* String(n).padStart(2,'0') for 0 <= n <= 99, as two digit tokens.
Pad2(n) == <<n \div 10, n % 10>>

\* Date getters in the server's time zone (offset tz seconds east of UTC).
LocalDay(t, tz) == (t + tz) \div SecPerDay
LocalSecOfDay(t, tz) == (t + tz) % SecPerDay

\* Date.prototype.setHours(hours, minutes, 0, 0)
SetHours(t, tz, hours, minutes) ==
    LocalDay(t, tz) * SecPerDay + hours * 3600 + minutes * 60 - tz

months == <<"jan", "feb", "mar", "apr", "may", "jun", "jul", "aug", "sep", "oct", "nov", "dec">>

\* `${months[getMonth()]}/${String(getDate()).padStart(2,'0')}/${getFullYear()}`
RosDate(t, tz) ==
    LET f == DateFields(LocalDay(t, tz))
    IN  <<months[f.month], "/", Pad2(f.day), "/", f.year>>

\* toTimeString().split(' ')[0]
RosTime(t, tz) ==
    LET s == LocalSecOfDay(t, tz)
    IN  <<Pad2(s \div 3600), ":", Pad2((s % 3600) \div 60), ":", Pad2(s % 60)>>

\* toISOString().split('T')[0]
IsoDate(t) ==
    LET f == DateFields(t \div SecPerDay)
    IN  <<f.year, "-", Pad2(f.month), "-", Pad2(f.day)>>

\* toISOString()
IsoDateTime(t) ==
    LET s == t % SecPerDay
    IN  IsoDate(t) \o <<"T", Pad2(s \div 3600), ":", Pad2((s % 3600) \div 60), ":", Pad2(s % 60), "Z">>

\* ------------------------------------------------- expiration computation
\* JavaScript truthiness of an optional number, string or object.
TruthyNum(o) == o.has /\ o.v # 0
TruthyStr(o) == o.has /\ o.v # <<>>
TruthyObj(o) == o.has
TruthyName(o) == o.has /\ o.v # ""

Digits == <<"0", "1", "2", "3", "4", "5", "6", "7", "8", "9">>

DigitVal(c) == (CHOOSE i \in 1..10 : Digits[i] = c) - 1

RECURSIVE Number(_)
Number(s) == IF s = <<>> THEN 0 ELSE 10 * Number(SubSeq(s, 1, Len(s) - 1)) + DigitVal(s[Len(s)])

\* graceTime.split(':').map(Number), first two parts
SplitTime(s) ==
    LET c == CHOOSE i \in 1..Len(s) : s[i] = ":" /\ \A j \in 1..(i - 1) : s[j] # ":"
    IN  <<Number(SubSeq(s, 1, c - 1)), Number(SubSeq(s, c + 1, Len(s)))>>

RECURSIVE DaysBeforeYear(_)
DaysBeforeYear(y) == IF y <= EpochYear THEN 0 ELSE DaysBeforeYear(y - 1) + YearLen(y - 1)

RECURSIVE DaysBeforeMonth(_, _)
DaysBeforeMonth(y, m) == IF m <= 1 THEN 0 ELSE DaysBeforeMonth(y, m - 1) + MonthLen(y, m - 1)

FromPad2(p) == 10 * p[1] + p[2]

\* new Date(manualExpiresAt) for a text of the form YYYY-MM-DDTHH:MM:SSZ.
ParseDate(text) ==
    (DaysBeforeYear(text[1]) + DaysBeforeMonth(text[1], FromPad2(text[3])) + FromPad2(text[5]) - 1)
        * SecPerDay
    + FromPad2(text[7]) * 3600 + FromPad2(text[9]) * 60 + FromPad2(text[11])

\* Variant: the grace period is tested before the manual timestamp.
ExpirationGraceFirst(in, t, tz) ==
    IF TruthyNum(in.graceDays) THEN
        LET hm == IF TruthyStr(in.graceTime) THEN SplitTime(in.graceTime.v) ELSE <<0, 0>>
            base == IF TruthyStr(in.graceTime) THEN SetHours(t, tz, hm[1], hm[2]) ELSE t
        IN  [branch |-> 2, expiresAt |-> base + in.graceDays.v * SecPerDay]
    ELSE IF TruthyStr(in.manualExpiresAt) THEN
        [branch |-> 1, expiresAt |-> ParseDate(in.manualExpiresAt.v)]
    ELSE IF TruthyObj(in.plan) /\ TruthyNum(in.plan.v.cycle_days) THEN
        [branch |-> 3, expiresAt |-> t + in.plan.v.cycle_days.v * SecPerDay]
    ELSE
        [branch |-> 4, expiresAt |-> t]

\* Lines 176-191 of the update handler; t is the clock reading, tz the server zone.
Expiration(in, t, tz) ==
    IF TruthyStr(in.manualExpiresAt) THEN
        [branch |-> 1, expiresAt |-> ParseDate(in.manualExpiresAt.v)]
    ELSE IF TruthyNum(in.graceDays) THEN
        LET hm == IF TruthyStr(in.graceTime) THEN SplitTime(in.graceTime.v) ELSE <<0, 0>>
            base == IF TruthyStr(in.graceTime) THEN SetHours(t, tz, hm[1], hm[2]) ELSE t
        IN  [branch |-> 2, expiresAt |-> base + in.graceDays.v * SecPerDay]
    ELSE IF TruthyObj(in.plan) /\ TruthyNum(in.plan.v.cycle_days) THEN
        [branch |-> 3, expiresAt |-> t + in.plan.v.cycle_days.v * SecPerDay]
    ELSE
        [branch |-> 4, expiresAt |-> t]

\* ---------------------------------------------------- safe command executor
EmptyMarker == "!empty"

\* error.errno === 'UNKNOWNREPLY' && error.message.includes('!empty')
IsEmptyReply(error) ==
    error.errno = "UNKNOWNREPLY" /\ \E i \in 1..Len(error.message) : error.message[i] = EmptyMarker

\* Variant: every error of the client is taken for an empty result.
WriteLegacySwallow(outcome) ==
    IF outcome.ok THEN outcome ELSE [ok |-> TRUE, data |-> <<>>]

\* Outcome of client.write: [ok |-> TRUE, data |-> seq] or [ok |-> FALSE, error |-> e].
WriteLegacySafe(outcome) ==
    IF outcome.ok THEN outcome
    ELSE IF IsEmptyReply(outcome.error) THEN [ok |-> TRUE, data |-> <<>>]
    ELSE outcome

\* ------------------------------------------------------------ request data
\* Clock readings and server zones (seconds).
Nows == {40 * SecPerDay + 10 * 3600 + 30 * 60 + 15, 58 * SecPerDay + 20 * 3600 + 5 * 60 + 40}
Zones == {8 * 3600, 0 - 5 * 3600}

\* Time that passes between two update requests.
ClockStep == 26 * 3600 + 47

\* Server zone of the gateway model.
ServerZone == 8 * 3600

ManualTexts == {IsoDateTime(100 * SecPerDay + 18 * 3600 + 45 * 60)}
GraceTimes == {<<"1", "4", ":", "0", "0">>, <<"0", "0", ":", "3", "0">>}
Plans == {[name |-> "basic", cycle_days |-> Some(30)], [name |-> "free", cycle_days |-> Some(0)],
          [name |-> "draft", cycle_days |-> None]}

ExpiryInputs ==
    [manualExpiresAt : {None} \cup {Some(m) : m \in ManualTexts},
     graceDays : {None} \cup {Some(d) : d \in 0..MaxGraceDays},
     graceTime : {None} \cup {Some(g) : g \in GraceTimes},
     plan : {None} \cup {Some(pl) : pl \in Plans}]

Subscribers ==
    {[address |-> <<"1", "0", ".", "0", ".", "0", ".", "5">>, macAddress |-> "AA:BB:CC:00:00:05",
      customerInfo |-> "alice", contactNumber |-> "0917", email |-> "alice@example.net"],
     [address |-> <<"1", "0", ".", "0", ".", "0", ".", "6">>, macAddress |-> "AA:BB:CC:00:00:06",
      customerInfo |-> "bob", contactNumber |-> "0918", email |-> "bob@example.net"]}

SpeedLimits == {None, Some(10), Some(20)}

\* Expiry inputs used by requests of the gateway model: a renewal by the plan's cycle.
RequestExpiry ==
    {e \in ExpiryInputs :
        /\ ~e.manualExpiresAt.has /\ e.graceDays = None /\ e.graceTime = None
        /\ e.plan.has /\ e.plan.v.name = "basic"}

\* ------------------------------------------------------------------- state
VARIABLES
    api,          \* api_type of the router record
    tz,           \* server time-zone offset
    now,          \* last clock reading
    addressList,  \* device: /ip/firewall/address-list
    queues,       \* device: /queue/simple
    scheds,       \* device: /system/scheduler
    routes,       \* device: /ip/route
    sessions,     \* device: open legacy API sessions
    nextId,       \* device: next item id
    req,          \* gateway: the running handler of each request slot
    last,         \* the call that finished last
    prev,         \* the call that finished before it
    calls,        \* number of requests received
    faults,       \* number of device calls that failed
    fn, pin, pout \* function under evaluation, its input and its result

devVars == <<addressList, queues, scheds, routes, sessions, nextId>>
pureVars == <<fn, pin, pout>>
vars == <<api, tz, now, addressList, queues, scheds, routes, sessions, nextId, req, last, prev,
          calls, faults, fn, pin, pout>>

Slots == {1, 2}

Idle == [pc |-> "idle"]
NoCall == [kind |-> "none"]

\* ------------------------------------------------------------ device model
\* The device names an item by a text such as *A; here * followed by a number.
ItemId(n) == "*" \o ToString(n)

HasId(tbl, id) == \E i \in 1..Len(tbl) : tbl[i][".id"] = id

\* Variant: the set command writes the property on the first item of the table.
SetFieldFirst(tbl, id, key, val) ==
    [i \in 1..Len(tbl) |-> IF i = 1 THEN [tbl[i] EXCEPT ![key] = val] ELSE tbl[i]]

\* Variant: the set command writes the property on every item of the table.
SetFieldEvery(tbl, id, key, val) == [i \in 1..Len(tbl) |-> [tbl[i] EXCEPT ![key] = val]]

SetField(tbl, id, key, val) ==
    [i \in 1..Len(tbl) |-> IF tbl[i][".id"] = id THEN [tbl[i] EXCEPT ![key] = val] ELSE tbl[i]]

\* Variant: the remove command leaves the item in place.
RemoveItemKeeps(tbl, id) == tbl

RemoveItem(tbl, id) == SelectSeq(tbl, LAMBDA r : r[".id"] # id)

\* Variant: the device replaces an item of the same name instead of adding a second one.
AddItemUniqueName(tbl, id, fields) ==
    Append(SelectSeq(tbl, LAMBDA r : r["name"] # fields["name"]), (".id" :> ItemId(id)) @@ fields)

\* The device appends a created item; it does not refuse an existing name.
AddItem(tbl, id, fields) == Append(tbl, (".id" :> ItemId(id)) @@ fields)

\* Variant: the lookup ignores the items the device holds.
FindNothing(tbl, filter) == <<>>

\* Items matching every ?key=value filter.
Find(tbl, filter) == SelectSeq(tbl, LAMBDA r : \A k \in DOMAIN filter : r[k] = filter[k])

\* The device stores a boolean property in canonical text.
DeviceBool(v) == IF v \in {"yes", "true"} THEN "true" ELSE "false"

\* What the device reports back for a disabled flag written as v: the canonical text, or, on
\* a device that echoes its input (fn = "asWritten"), the text that was written.
Reported(v) == IF fn = "asWritten" THEN v ELSE DeviceBool(v)

Route(id, gw, dis) == (".id" :> ItemId(id)) @@ ("check-gateway" :> gw) @@ ("disabled" :> dis)

RouteConfigs ==
    {<<Route(1, Some("ping"), "true"), Route(2, Some("arp"), "true"), Route(3, Some("ping"), "false"),
       Route(4, None, "false")>>,
     <<Route(4, None, "false")>>}

FirstFreeId == 10

AddressEntry(id, address, list, comment) ==
    (".id" :> ItemId(id)) @@ ("address" :> address) @@ ("list" :> list) @@ ("comment" :> comment)

InitAddressList ==
    LET a == CHOOSE s \in Subscribers : s.customerInfo = "alice"
        b == CHOOSE s \in Subscribers : s.customerInfo = "bob"
    IN  <<AddressEntry(5, a.address, "authorized-dhcp-users", <<>>),
          AddressEntry(6, b.address, "pending-dhcp-users", <<>>)>>

LegacyFault == [errno |-> "SOCKTMOUT", message |-> <<"Timed out after 15 seconds">>, response |-> None]
LegacyTrap == [errno |-> "UNKNOWNREPLY", message |-> <<"no such item">>, response |-> None]
EmptyReply == [errno |-> "UNKNOWNREPLY", message |-> <<"unknown reply: ", EmptyMarker>>, response |-> None]
RestFault ==
    [errno |-> "ERR_BAD_REQUEST", message |-> <<"Request failed with status code 400">>,
     response |-> Some([status |-> 400,
                        data |-> Some([message |-> Some(<<"Bad Request">>), detail |-> None])])]
RestNotFound ==
    [errno |-> "ERR_BAD_REQUEST", message |-> <<"Request failed with status code 404">>,
     response |-> Some([status |-> 404,
                        data |-> Some([message |-> Some(<<"Not Found">>), detail |-> None])])]

\* An upstream answer with HTTP status st whose body is d (None: no body).
RestError(st, d) ==
    [errno |-> "ERR_BAD_RESPONSE", message |-> <<"Request failed with status code", ToString(st)>>,
     response |-> Some([status |-> st, data |-> d])]

\* Bodies of upstream error answers: with message, with detail only, with both, with neither
\* (a body that is not the device's error object), and no body.
RestErrorBodies ==
    {Some([message |-> Some(<<"Not Found">>), detail |-> None]),
     Some([message |-> None, detail |-> Some(<<"no such command">>)]),
     Some([message |-> Some(<<"Bad Request">>), detail |-> Some(<<"unknown parameter">>)]),
     Some([message |-> Some(<<>>), detail |-> Some(<<"missing value">>)]),
     Some([message |-> None, detail |-> None]),
     None}

Ok(data) == [ok |-> TRUE, data |-> data]
Err(e) == [ok |-> FALSE, error |-> e]

\* Injected device faults, when the request's fault budget allows one more.
Faults(f, e) == IF f THEN {Err(e)} ELSE {}

\* Replies the device may give to a legacy print that matches the items in data.
LegacyPrintReplies(data, f) ==
    {Ok(data)} \cup Faults(f, LegacyFault) \cup (IF data = <<>> THEN {Err(EmptyReply)} ELSE {})

\* Replies to a legacy command on item id (exists: whether the item is still there).
LegacyItemReplies(exists, f) == IF exists THEN {Ok(<<>>)} \cup Faults(f, LegacyFault) ELSE {Err(LegacyTrap)}

LegacyAddReplies(f) == {Ok(<<>>)} \cup Faults(f, LegacyFault)

RestGetReplies(data, f) == {Ok(data)} \cup Faults(f, RestFault)

RestItemReplies(exists, f) == IF exists THEN {Ok(<<>>)} \cup Faults(f, RestFault) ELSE {Err(RestNotFound)}

RestPutReplies(f) == {Ok(<<>>)} \cup Faults(f, RestFault)

\* ------------------------------------------------ handler bookkeeping
fixedVars == <<api, tz, now, calls, fn, pin, pout>>

At(p, kind, pc) == req[p].pc = pc /\ req[p].kind = kind

\* Whether one more device call of request r may be made to fail.
MayFail(r) == faults < MaxFaults

\* What is kept of a finished call once another call has finished after it.
Brief(c) ==
    IF c.kind = "update"
    THEN [kind |-> c.kind, body |-> c.body, fault |-> c.fault, expiresAt |-> c.expiresAt,
          qAct |-> c.qAct, qid |-> c.qid, sFound |-> c.sFound]
    ELSE IF c.kind = "none" THEN c
    ELSE [kind |-> c.kind, body |-> c.body, fault |-> c.fault]

\* A handler starts in slot p as r and runs to its first await.
Begin(p, r) == req' = [req EXCEPT ![p] = r] /\ UNCHANGED <<last, prev, faults>>

\* The handler of slot p continues as r at its next await.
Goto(p, r) ==
    /\ req' = [req EXCEPT ![p] = r]
    /\ faults' = faults + r.fault - req[p].fault
    /\ UNCHANGED <<last, prev>>

\* res.json / res.status(..).json: the first response sent is the one the caller gets.
Send(r, status, body) ==
    [r EXCEPT !.resp = IF r.resp.has THEN r.resp ELSE Some([status |-> status, body |-> body]),
              !.sends = r.sends + 1]

\* The handler of slot p returns.
Return(p, r) ==
    /\ req' = [req EXCEPT ![p] = Idle]
    /\ faults' = faults + r.fault - req[p].fault
    /\ last' = [r EXCEPT !.pc = "done", !.found = <<>>]
    /\ prev' = Brief(last)

\* The handler of slot p sends its response and returns.
Respond(p, r, status, body) == Return(p, Send(r, status, body))

\* await client.connect() opens a device session and the handler goes on at nextpc.
ConnectOk(p, r, nextpc) ==
    /\ sessions' = sessions + 1
    /\ Goto(p, [r EXCEPT !.conn = TRUE, !.pc = nextpc])
    /\ UNCHANGED <<addressList, queues, scheds, routes, nextId>>

\* await client.connect() throws: r is the handler as it enters its catch.
ConnectThrows(r) == [r EXCEPT !.fault = @ + 1]

\* ------------------------------------------------ dhcp-client/update
\* address.replace(/\./g, '-') behind the fixed prefix
SchedName(address) ==
    <<"deactivate-dhcp-">> \o [i \in 1..Len(address) |-> IF address[i] = "." THEN "-" ELSE address[i]]

OnEvent(address, macAddress) ==
    <<"/ip firewall address-list remove [find where address=\"">> \o address
    \o <<"\" and list=\"authorized-dhcp-users\"]; /ip firewall connection remove [find where src-address~\"^">>
    \o address
    \o <<"\"]; :local leaseId [/ip dhcp-server lease find where address=\"">> \o address
    \o <<"\"]; if ([:len $leaseId] > 0) do={ /ip firewall address-list add address=\"">> \o address
    \o <<"\" list=\"pending-dhcp-users\" timeout=1d comment=\"", macAddress, "\"; }">>

\* JSON.stringify(commentData), as the ordered key/value pairs it writes.
CommentData(body, expiresAt) ==
    <<<<"customerInfo", body.sub.customerInfo>>,
      <<"contactNumber", body.sub.contactNumber>>,
      <<"email", body.sub.email>>,
      <<"planName", IF TruthyObj(body.exp.plan) THEN body.exp.plan.v.name ELSE "">>,
      <<"dueDate", IsoDate(expiresAt)>>,
      <<"dueDateTime", IsoDateTime(expiresAt)>>,
      <<"planType", IF TruthyName(body.planType) THEN body.planType.v ELSE "prepaid">> >>

\* Variant: the limit is written for one direction only.
LimitStringUpload(speedLimit) == <<speedLimit, "M">>

LimitString(speedLimit) == <<speedLimit, "M", "/", speedLimit, "M">>

SchedFields(r) ==
    ("name" :> SchedName(r.body.sub.address)) @@ ("start-date" :> RosDate(r.expiresAt, tz))
    @@ ("start-time" :> RosTime(r.expiresAt, tz)) @@ ("interval" :> "0s")
    @@ ("on-event" :> OnEvent(r.body.sub.address, r.body.sub.macAddress))

QueueFields(r) ==
    ("name" :> r.body.sub.customerInfo) @@ ("target" :> r.body.sub.address)
    @@ ("max-limit" :> LimitString(r.body.speedLimit.v))

UpdateBodies ==
    [sub : Subscribers, speedLimit : SpeedLimits, exp : RequestExpiry, planType : {None}]

\* The handler up to its first await: lines 170-205.
UpdStart(p) ==
    /\ req[p] = Idle
    /\ \E body \in UpdateBodies :
        /\ now' = now + ClockStep
        /\ LET e == Expiration(body.exp, now', tz)
           IN  Begin(p, [pc |-> IF api = "legacy" THEN "connect" ELSE "alPrint", kind |-> "update",
                        body |-> body, branch |-> e.branch, expiresAt |-> e.expiresAt,
                        found |-> <<>>, fault |-> 0, conn |-> FALSE, qAct |-> "none",
                        qid |-> "", sFound |-> 0, resp |-> None, sends |-> 0, failed |-> {}])
    /\ calls' = calls + 1
    /\ UNCHANGED <<api, tz, devVars, pureVars>>

\* The device call of r's current await failed.
Failed(r) == [r EXCEPT !.fault = @ + 1, !.failed = @ \cup {r.pc}]

\* catch (e) of the handler: lines 285-288.
UpdCatch(p, r, e) == Respond(p, r, 500, [message |-> e.message])

AfterAddressList(r) == IF TruthyNum(r.body.speedLimit) THEN "qPrint" ELSE "sPrint"

UpdConnectLegacy(p) ==
    /\ api = "legacy" /\ At(p, "update", "connect")
    /\ \/ ConnectOk(p, req[p], "alPrint")
       \/ /\ MayFail(req[p])
          /\ UpdCatch(p, Failed(req[p]), LegacyFault)
          /\ UNCHANGED devVars
    /\ UNCHANGED fixedVars

UpdAlPrintLegacy(p) ==
    /\ api = "legacy" /\ At(p, "update", "alPrint")
    /\ LET r == req[p]
           data == Find(addressList, ("address" :> r.body.sub.address) @@ ("list" :> "authorized-dhcp-users"))
       IN  \E raw \in LegacyPrintReplies(data, MayFail(req[p])) :
             LET o == WriteLegacySafe(raw)
             IN  IF o.ok
                 THEN Goto(p, [r EXCEPT !.found = o.data,
                                        !.pc = IF Len(o.data) > 0 THEN "alSet" ELSE AfterAddressList(r)])
                 ELSE UpdCatch(p, Failed(r), o.error)
    /\ UNCHANGED <<devVars, fixedVars>>

UpdAlSetLegacy(p) ==
    /\ api = "legacy" /\ At(p, "update", "alSet")
    /\ LET r == req[p]
           id == r.found[1][".id"]
       IN  \E o \in LegacyItemReplies(HasId(addressList, id), MayFail(req[p])) :
             IF o.ok
             THEN /\ addressList' = SetField(addressList, id, "comment", CommentData(r.body, r.expiresAt))
                  /\ Goto(p, [r EXCEPT !.pc = AfterAddressList(r)])
             ELSE /\ UpdCatch(p, Failed(r), o.error)
                  /\ UNCHANGED addressList
    /\ UNCHANGED <<queues, scheds, routes, sessions, nextId, fixedVars>>

UpdQPrintLegacy(p) ==
    /\ api = "legacy" /\ At(p, "update", "qPrint")
    /\ LET r == req[p]
           data == Find(queues, ("name" :> r.body.sub.customerInfo))
       IN  \E raw \in LegacyPrintReplies(data, MayFail(req[p])) :
             LET o == WriteLegacySafe(raw)
             IN  IF o.ok
                 THEN Goto(p, [r EXCEPT !.found = o.data,
                                        !.pc = IF Len(o.data) > 0 THEN "qSet" ELSE "qAdd"])
                 ELSE UpdCatch(p, Failed(r), o.error)
    /\ UNCHANGED <<devVars, fixedVars>>

UpdQSetLegacy(p) ==
    /\ api = "legacy" /\ At(p, "update", "qSet")
    /\ LET r == req[p]
           id == r.found[1][".id"]
       IN  \E o \in LegacyItemReplies(HasId(queues, id), MayFail(req[p])) :
             IF o.ok
             THEN /\ queues' = SetField(queues, id, "max-limit", LimitString(r.body.speedLimit.v))
                  /\ Goto(p, [r EXCEPT !.pc = "sPrint", !.qAct = "set", !.qid = id])
             ELSE /\ UpdCatch(p, Failed(r), o.error)
                  /\ UNCHANGED queues
    /\ UNCHANGED <<addressList, scheds, routes, sessions, nextId, fixedVars>>

UpdQAddLegacy(p) ==
    /\ api = "legacy" /\ At(p, "update", "qAdd")
    /\ LET r == req[p]
       IN  \E o \in LegacyAddReplies(MayFail(req[p])) :
             IF o.ok
             THEN /\ queues' = AddItem(queues, nextId, QueueFields(r))
                  /\ nextId' = nextId + 1
                  /\ Goto(p, [r EXCEPT !.pc = "sPrint", !.qAct = "add", !.qid = ItemId(nextId)])
             ELSE /\ UpdCatch(p, Failed(r), o.error)
                  /\ UNCHANGED <<queues, nextId>>
    /\ UNCHANGED <<addressList, scheds, routes, sessions, fixedVars>>

UpdSPrintLegacy(p) ==
    /\ api = "legacy" /\ At(p, "update", "sPrint")
    /\ LET r == req[p]
           data == Find(scheds, ("name" :> SchedName(r.body.sub.address)))
       IN  \E raw \in LegacyPrintReplies(data, MayFail(req[p])) :
             LET o == WriteLegacySafe(raw)
             IN  IF o.ok
                 THEN Goto(p, [r EXCEPT !.found = o.data, !.sFound = Len(o.data),
                                        !.pc = IF Len(o.data) > 0 THEN "sRemove" ELSE "sAdd"])
                 ELSE UpdCatch(p, Failed(r), o.error)
    /\ UNCHANGED <<devVars, fixedVars>>

UpdSRemoveLegacy(p) ==
    /\ api = "legacy" /\ At(p, "update", "sRemove")
    /\ LET r == req[p]
           id == r.found[1][".id"]
       IN  \E o \in LegacyItemReplies(HasId(scheds, id), MayFail(req[p])) :
             IF o.ok
             THEN /\ scheds' = RemoveItem(scheds, id)
                  /\ Goto(p, [r EXCEPT !.pc = "sAdd"])
             ELSE /\ UpdCatch(p, Failed(r), o.error)
                  /\ UNCHANGED scheds
    /\ UNCHANGED <<addressList, queues, routes, sessions, nextId, fixedVars>>

UpdSAddLegacy(p) ==
    /\ api = "legacy" /\ At(p, "update", "sAdd")
    /\ LET r == req[p]
       IN  \E o \in LegacyAddReplies(MayFail(req[p])) :
             IF o.ok
             THEN /\ scheds' = AddItem(scheds, nextId, SchedFields(r))
                  /\ nextId' = nextId + 1
                  /\ Goto(p, [r EXCEPT !.pc = "close"])
             ELSE /\ UpdCatch(p, Failed(r), o.error)
                  /\ UNCHANGED <<scheds, nextId>>
    /\ UNCHANGED <<addressList, queues, routes, sessions, fixedVars>>

\* await client.close() and the success response: lines 243 and 284.
UpdCloseLegacy(p) ==
    /\ api = "legacy" /\ At(p, "update", "close")
    /\ \E o \in {Ok(<<>>)} \cup Faults(MayFail(req[p]), LegacyFault) :
         IF o.ok
         THEN /\ sessions' = sessions - 1
              /\ Respond(p, [req[p] EXCEPT !.conn = FALSE], 200, [message |-> <<"Updated successfully">>])
         ELSE /\ UpdCatch(p, Failed(req[p]), o.error)
              /\ UNCHANGED sessions
    /\ UNCHANGED <<addressList, queues, scheds, routes, nextId, fixedVars>>

\* REST variant: each artifact has its own try/catch that logs and continues.
UpdAlGetRest(p) ==
    /\ api = "rest" /\ At(p, "update", "alPrint")
    /\ LET r == req[p]
           data == Find(addressList, ("address" :> r.body.sub.address) @@ ("list" :> "authorized-dhcp-users"))
       IN  \E o \in RestGetReplies(data, MayFail(req[p])) :
             IF o.ok
             THEN Goto(p, [r EXCEPT !.found = o.data,
                                    !.pc = IF Len(o.data) > 0 THEN "alSet" ELSE AfterAddressList(r)])
             ELSE Goto(p, [Failed(r) EXCEPT !.pc = AfterAddressList(r)])
    /\ UNCHANGED <<devVars, fixedVars>>

UpdAlPatchRest(p) ==
    /\ api = "rest" /\ At(p, "update", "alSet")
    /\ LET r == req[p]
           id == r.found[1][".id"]
       IN  \E o \in RestItemReplies(HasId(addressList, id), MayFail(req[p])) :
             IF o.ok
             THEN /\ addressList' = SetField(addressList, id, "comment", CommentData(r.body, r.expiresAt))
                  /\ Goto(p, [r EXCEPT !.pc = AfterAddressList(r)])
             ELSE /\ Goto(p, [Failed(r) EXCEPT !.pc = AfterAddressList(r)])
                  /\ UNCHANGED addressList
    /\ UNCHANGED <<queues, scheds, routes, sessions, nextId, fixedVars>>

UpdQGetRest(p) ==
    /\ api = "rest" /\ At(p, "update", "qPrint")
    /\ LET r == req[p]
           data == Find(queues, ("name" :> r.body.sub.customerInfo))
       IN  \E o \in RestGetReplies(data, MayFail(req[p])) :
             IF o.ok
             THEN Goto(p, [r EXCEPT !.found = o.data,
                                    !.pc = IF Len(o.data) > 0 THEN "qSet" ELSE "qAdd"])
             ELSE Goto(p, [Failed(r) EXCEPT !.pc = "sPrint"])
    /\ UNCHANGED <<devVars, fixedVars>>

UpdQPatchRest(p) ==
    /\ api = "rest" /\ At(p, "update", "qSet")
    /\ LET r == req[p]
           id == r.found[1][".id"]
       IN  \E o \in RestItemReplies(HasId(queues, id), MayFail(req[p])) :
             IF o.ok
             THEN /\ queues' = SetField(queues, id, "max-limit", LimitString(r.body.speedLimit.v))
                  /\ Goto(p, [r EXCEPT !.pc = "sPrint", !.qAct = "set", !.qid = id])
             ELSE /\ Goto(p, [Failed(r) EXCEPT !.pc = "sPrint"])
                  /\ UNCHANGED queues
    /\ UNCHANGED <<addressList, scheds, routes, sessions, nextId, fixedVars>>

UpdQPutRest(p) ==
    /\ api = "rest" /\ At(p, "update", "qAdd")
    /\ LET r == req[p]
       IN  \E o \in RestPutReplies(MayFail(req[p])) :
             IF o.ok
             THEN /\ queues' = AddItem(queues, nextId, QueueFields(r))
                  /\ nextId' = nextId + 1
                  /\ Goto(p, [r EXCEPT !.pc = "sPrint", !.qAct = "add", !.qid = ItemId(nextId)])
             ELSE /\ Goto(p, [Failed(r) EXCEPT !.pc = "sPrint"])
                  /\ UNCHANGED <<queues, nextId>>
    /\ UNCHANGED <<addressList, scheds, routes, sessions, fixedVars>>

UpdSGetRest(p) ==
    /\ api = "rest" /\ At(p, "update", "sPrint")
    /\ LET r == req[p]
           data == Find(scheds, ("name" :> SchedName(r.body.sub.address)))
       IN  \E o \in RestGetReplies(data, MayFail(req[p])) :
             IF o.ok
             THEN Goto(p, [r EXCEPT !.found = o.data, !.sFound = Len(o.data),
                                    !.pc = IF Len(o.data) > 0 THEN "sRemove" ELSE "sAdd"])
             ELSE Respond(p, Failed(r), 200, [message |-> <<"Updated successfully">>])
    /\ UNCHANGED <<devVars, fixedVars>>

UpdSDeleteRest(p) ==
    /\ api = "rest" /\ At(p, "update", "sRemove")
    /\ LET r == req[p]
           id == r.found[1][".id"]
       IN  \E o \in RestItemReplies(HasId(scheds, id), MayFail(req[p])) :
             IF o.ok
             THEN /\ scheds' = RemoveItem(scheds, id)
                  /\ Goto(p, [r EXCEPT !.pc = "sAdd"])
             ELSE /\ Respond(p, Failed(r), 200, [message |-> <<"Updated successfully">>])
                  /\ UNCHANGED scheds
    /\ UNCHANGED <<addressList, queues, routes, sessions, nextId, fixedVars>>

\* The scheduler put, then the success response of line 284.
UpdSPutRest(p) ==
    /\ api = "rest" /\ At(p, "update", "sAdd")
    /\ LET r == req[p]
       IN  \E o \in RestPutReplies(MayFail(req[p])) :
             IF o.ok
             THEN /\ scheds' = AddItem(scheds, nextId, SchedFields(r))
                  /\ nextId' = nextId + 1
                  /\ Respond(p, r, 200, [message |-> <<"Updated successfully">>])
             ELSE /\ Respond(p, Failed(r), 200, [message |-> <<"Updated successfully">>])
                  /\ UNCHANGED <<scheds, nextId>>
    /\ UNCHANGED <<addressList, queues, routes, sessions, fixedVars>>

\* ------------------------------------------------ wan-failover-status
\* Variant: only the first monitored route is taken (find instead of filter).
MonitoredFirst(rs) ==
    LET m == SelectSeq(rs, LAMBDA r : TruthyName(r["check-gateway"]))
    IN  IF m = <<>> THEN m ELSE <<m[1]>>

\* routes.filter(r => r['check-gateway'])
Monitored(rs) == SelectSeq(rs, LAMBDA r : TruthyName(r["check-gateway"]))

\* What the device returns for ['/ip/route/print', '?check-gateway'].
HavingCheckGateway(rs) == SelectSeq(rs, LAMBDA r : r["check-gateway"].has)

\* Variant: every monitored route must be enabled (every instead of some).
IsEnabledEvery(monitoredRoutes) ==
    \A i \in 1..Len(monitoredRoutes) :
        monitoredRoutes[i]["disabled"] = "false" \/ monitoredRoutes[i]["disabled"] = ""

\* monitoredRoutes.some(r => r.disabled === 'false' || !r.disabled)
IsEnabled(monitoredRoutes) ==
    \E i \in 1..Len(monitoredRoutes) :
        monitoredRoutes[i]["disabled"] = "false" \/ monitoredRoutes[i]["disabled"] = ""

\* Lines 303-308.
StatusBody(rs) ==
    IF Len(Monitored(rs)) = 0
    THEN [enabled |-> FALSE, message |-> <<"No routes with check-gateway found.">>]
    ELSE [enabled |-> IsEnabled(Monitored(rs))]

\* catch (e) of the status and toggle handlers.
ScriptCatch(p, r, e) == Respond(p, r, 500, [message |-> e.message])

\* wrote counts the route writes the device has carried out for the call.
NewCall(kind, pc, body) ==
    [pc |-> pc, kind |-> kind, body |-> body, found |-> <<>>, fault |-> 0, conn |-> FALSE,
     resp |-> None, sends |-> 0, wrote |-> 0]

StatStart(p) ==
    /\ req[p] = Idle
    /\ Begin(p, NewCall("status", IF api = "legacy" THEN "connect" ELSE "stPrint", None))
    /\ calls' = calls + 1
    /\ UNCHANGED <<api, tz, now, devVars, pureVars>>

StatConnectLegacy(p) ==
    /\ api = "legacy" /\ At(p, "status", "connect")
    /\ \/ ConnectOk(p, req[p], "stPrint")
       \/ /\ MayFail(req[p])
          /\ ScriptCatch(p, ConnectThrows(req[p]), LegacyFault)
          /\ UNCHANGED devVars
    /\ UNCHANGED fixedVars

StatPrintLegacy(p) ==
    /\ api = "legacy" /\ At(p, "status", "stPrint")
    /\ \E raw \in LegacyPrintReplies(HavingCheckGateway(routes), MayFail(req[p])) :
         LET o == WriteLegacySafe(raw)
         IN  IF o.ok
             THEN Goto(p, [req[p] EXCEPT !.found = o.data, !.pc = "close"])
             ELSE ScriptCatch(p, [req[p] EXCEPT !.fault = @ + 1], o.error)
    /\ UNCHANGED <<devVars, fixedVars>>

StatCloseLegacy(p) ==
    /\ api = "legacy" /\ At(p, "status", "close")
    /\ \E o \in {Ok(<<>>)} \cup Faults(MayFail(req[p]), LegacyFault) :
         IF o.ok
         THEN /\ sessions' = sessions - 1
              /\ Respond(p, [req[p] EXCEPT !.conn = FALSE], 200, StatusBody(req[p].found))
         ELSE /\ ScriptCatch(p, [req[p] EXCEPT !.fault = @ + 1], o.error)
              /\ UNCHANGED sessions
    /\ UNCHANGED <<addressList, queues, scheds, routes, nextId, fixedVars>>

StatGetRest(p) ==
    /\ api = "rest" /\ At(p, "status", "stPrint")
    /\ \E o \in RestGetReplies(routes, MayFail(req[p])) :
         IF o.ok
         THEN Respond(p, [req[p] EXCEPT !.found = o.data], 200, StatusBody(o.data))
         ELSE ScriptCatch(p, [req[p] EXCEPT !.fault = @ + 1], o.error)
    /\ UNCHANGED <<devVars, fixedVars>>

\* ------------------------------------------------ configure-wan-failover
ToggleMessage(enabled) == <<"Failover routes ", IF enabled THEN "enabled" ELSE "disabled">>

\* JSON text of a boolean in a REST request body.
JsonBool(b) == IF b THEN "true" ELSE "false"

TogStart(p) ==
    /\ req[p] = Idle
    /\ \E enabled \in BOOLEAN :
         Begin(p, NewCall("toggle", IF api = "legacy" THEN "connect" ELSE "tgPrint", [enabled |-> enabled]))
    /\ calls' = calls + 1
    /\ UNCHANGED <<api, tz, now, devVars, pureVars>>

TogConnectLegacy(p) ==
    /\ api = "legacy" /\ At(p, "toggle", "connect")
    /\ \/ ConnectOk(p, req[p], "tgPrint")
       \/ /\ MayFail(req[p])
          /\ ScriptCatch(p, ConnectThrows(req[p]), LegacyFault)
          /\ UNCHANGED devVars
    /\ UNCHANGED fixedVars

TogPrintLegacy(p) ==
    /\ api = "legacy" /\ At(p, "toggle", "tgPrint")
    /\ \E raw \in LegacyPrintReplies(HavingCheckGateway(routes), MayFail(req[p])) :
         LET o == WriteLegacySafe(raw)
         IN  IF o.ok
             THEN Goto(p, [req[p] EXCEPT !.found = Monitored(o.data),
                                         !.pc = IF Len(Monitored(o.data)) > 0 THEN "tgSet" ELSE "close"])
             ELSE ScriptCatch(p, [req[p] EXCEPT !.fault = @ + 1], o.error)
    /\ UNCHANGED <<devVars, fixedVars>>

\* One iteration of the loop over routesToModify (found holds the routes still to visit).
TogSetLegacy(p) ==
    /\ api = "legacy" /\ At(p, "toggle", "tgSet")
    /\ LET r == req[p]
           id == r.found[1][".id"]
       IN  \E o \in LegacyItemReplies(HasId(routes, id), MayFail(req[p])) :
             IF o.ok
             THEN /\ routes' = SetField(routes, id, "disabled",
                                        Reported(IF r.body.enabled THEN "no" ELSE "yes"))
                  /\ Goto(p, [r EXCEPT !.found = Tail(r.found), !.wrote = @ + 1,
                                        !.pc = IF Len(r.found) > 1 THEN "tgSet" ELSE "close"])
             ELSE /\ ScriptCatch(p, [r EXCEPT !.fault = @ + 1], o.error)
                  /\ UNCHANGED routes
    /\ UNCHANGED <<addressList, queues, scheds, sessions, nextId, fixedVars>>

TogCloseLegacy(p) ==
    /\ api = "legacy" /\ At(p, "toggle", "close")
    /\ \E o \in {Ok(<<>>)} \cup Faults(MayFail(req[p]), LegacyFault) :
         IF o.ok
         THEN /\ sessions' = sessions - 1
              /\ Respond(p, [req[p] EXCEPT !.conn = FALSE], 200,
                         [message |-> ToggleMessage(req[p].body.enabled)])
         ELSE /\ ScriptCatch(p, [req[p] EXCEPT !.fault = @ + 1], o.error)
              /\ UNCHANGED sessions
    /\ UNCHANGED <<addressList, queues, scheds, routes, nextId, fixedVars>>

TogGetRest(p) ==
    /\ api = "rest" /\ At(p, "toggle", "tgPrint")
    /\ \E o \in RestGetReplies(routes, MayFail(req[p])) :
         IF ~o.ok THEN ScriptCatch(p, [req[p] EXCEPT !.fault = @ + 1], o.error)
         ELSE IF Len(Monitored(o.data)) > 0
         THEN Goto(p, [req[p] EXCEPT !.found = Monitored(o.data), !.pc = "tgSet"])
         ELSE Respond(p, req[p], 200, [message |-> ToggleMessage(req[p].body.enabled)])
    /\ UNCHANGED <<devVars, fixedVars>>

TogPatchRest(p) ==
    /\ api = "rest" /\ At(p, "toggle", "tgSet")
    /\ LET r == req[p]
           id == r.found[1][".id"]
       IN  \E o \in RestItemReplies(HasId(routes, id), MayFail(req[p])) :
             IF o.ok
             THEN /\ routes' = SetField(routes, id, "disabled", Reported(JsonBool(~r.body.enabled)))
                  /\ IF Len(r.found) > 1
                     THEN Goto(p, [r EXCEPT !.found = Tail(r.found), !.wrote = @ + 1])
                     ELSE Respond(p, [r EXCEPT !.found = <<>>, !.wrote = @ + 1], 200,
                                  [message |-> ToggleMessage(r.body.enabled)])
             ELSE /\ ScriptCatch(p, [r EXCEPT !.fault = @ + 1], o.error)
                  /\ UNCHANGED routes
    /\ UNCHANGED <<addressList, queues, scheds, sessions, nextId, fixedVars>>

\* ------------------------------------------------ router lookup (getRouter)
\* Rows of the routers table; r9 is the id of no row.
Directory ==
    ("r1" :> [host |-> "10.0.0.1", user |-> "admin", api_type |-> api])
    @@ ("r2" :> [host |-> "", user |-> "admin", api_type |-> api])
    @@ ("r3" :> [host |-> "10.0.0.3", user |-> "", api_type |-> api])

RouterIds == {"r1", "r2", "r3", "r9"}

\* GET /api/db/routers/:id of the panel: the row, or 404 'Router not found'.
DirectoryReplies(routerId) ==
    IF routerId \in DOMAIN Directory THEN {Ok(Some(Directory[routerId]))}
    ELSE {Err([errno |-> "ERR_BAD_REQUEST", message |-> <<"Request failed with status code", "404">>,
               response |-> Some([status |-> 404,
                                  data |-> Some([message |-> Some(<<"Router not found">>),
                                                 detail |-> None])])]),
          Ok(None)}

\* Variant: a record is accepted whatever its host and user.
CreateRouterInstanceUnchecked(config) == Ok(config.v)

\* Lines 14-17: the guard of createRouterInstance; the instance stands for the record.
CreateRouterInstance(config) ==
    IF ~config.has \/ config.v.host = "" \/ config.v.user = ""
    THEN Err([errno |-> "", message |-> <<"Invalid router configuration">>, response |-> None])
    ELSE Ok(config.v)

\* Lines 66-96 after the directory answered d: next() or the error response.
GetRouter(d) ==
    LET thrown(e) ==
          IF e.response.has
          THEN [next |-> FALSE, status |-> e.response.v.status,
                body |-> [message |-> IF TruthyStr(e.response.v.data.v.message)
                                      THEN e.response.v.data.v.message.v
                                      ELSE <<"Router not found">>]]
          ELSE [next |-> FALSE, status |-> 500,
                body |-> [message |-> <<"Internal Server Error: Could not communicate with main panel service.">>]]
    IN  IF ~d.ok THEN thrown(d.error)
        ELSE IF ~d.data.has THEN [next |-> FALSE, status |-> 404, body |-> [message |-> <<"Router not found">>]]
        ELSE LET c == CreateRouterInstance(d.data)
             IN  IF c.ok THEN [next |-> TRUE, router |-> c.data] ELSE thrown(c.error)

\* ------------------------------------------------ generic gateway endpoint
NoFields == [k \in {} |-> k]

\* Requests to /:routerId/:endpoint(*); express.json() leaves body = {} when none is sent.
GenericRequests ==
    {[routerId |-> "r1", method |-> "GET", endpoint |-> <<"ip", "/", "route", "/", "print">>,
      query |-> NoFields, body |-> Some(NoFields)],
     [routerId |-> "r1", method |-> "GET", endpoint |-> <<"ip", "/", "route">>,
      query |-> NoFields, body |-> Some(NoFields)],
     [routerId |-> "r1", method |-> "POST", endpoint |-> <<"ip", "/", "route", "/", "set">>,
      query |-> NoFields, body |-> Some((".id" :> ItemId(1)) @@ ("disabled" :> "yes"))]}

Methods == {"GET", "POST", "PUT", "PATCH", "DELETE"}

Endpoints ==
    {<<"ip", "/", "route", "/", "print">>, <<"ip", "/", "route">>,
     <<"ip", "/", "route", "/", "print", "/", "print">>, <<"print">>,
     <<"ip", "/", "route", "/", "set">>}

\* Requests of every method, to known and unknown routers, with and without query and body.
GatewayRequests ==
    [routerId : {"r1"}, method : Methods, endpoint : Endpoints,
     query : {NoFields, ("disabled" :> "false"), ("disabled" :> "false") @@ ("check-gateway" :> Some("ping"))},
     body : {Some(NoFields), Some((".id" :> ItemId(1)) @@ ("disabled" :> "yes"))}]
    \cup [routerId : RouterIds \ {"r1"}, method : {"GET", "POST"},
          endpoint : {<<"ip", "/", "route", "/", "print">>, <<"ip", "/", "route", "/", "set">>},
          query : {NoFields}, body : {Some((".id" :> ItemId(1)) @@ ("disabled" :> "yes"))}]

\* finalEndpoint.endsWith('/print')
EndsWithPrint(e) == Len(e) >= 2 /\ e[Len(e) - 1] = "/" /\ e[Len(e)] = "print"

\* Variant: the suffix is removed whatever the method.
FinalEndpointAnyMethod(method, endpoint) ==
    IF EndsWithPrint(endpoint) THEN SubSeq(endpoint, 1, Len(endpoint) - 2) ELSE endpoint

\* Lines 366-369.
FinalEndpoint(method, endpoint) ==
    IF method = "GET" /\ EndsWithPrint(endpoint) THEN SubSeq(endpoint, 1, Len(endpoint) - 2) ELSE endpoint

\* Lines 348-350: the handler reads req.params, req.method and req.body; nothing of
\* req.query is handed to the client.
QueryArgs(query) == NoFields

\* Line 356: the parameters of the legacy command (None: the sentence alone).
LegacyParams(method, body) == IF method = "POST" /\ TruthyObj(body) THEN body ELSE None

\* key.replace(/_/g, '-')
RECURSIVE ReplaceUnderscores(_)
ReplaceUnderscores(key) ==
    IF Len(key) = 0 THEN ""
    ELSE (IF SubSeq(key, 1, 1) = "_" THEN "-" ELSE SubSeq(key, 1, 1))
         \o ReplaceUnderscores(SubSeq(key, 2, Len(key)))

\* Variant: the field names are copied as they are.
NormalizeLegacyObjectKeepsNames(obj) ==
    IF ".id" \in DOMAIN obj /\ obj[".id"] # "" THEN ("id" :> obj[".id"]) @@ obj ELSE obj

\* Lines 111-121. An item the device reports has no two names that differ only in '_' for '-',
\* so every rewritten name has one original.
NormalizeLegacyObject(obj) ==
    LET newObj == [k \in {ReplaceUnderscores(j) : j \in DOMAIN obj} |->
                     obj[CHOOSE j \in DOMAIN obj : ReplaceUnderscores(j) = k]]
    IN  IF ".id" \in DOMAIN newObj /\ newObj[".id"] # ""
        THEN ("id" :> newObj[".id"]) @@ newObj
        ELSE newObj

\* The response interceptor of the REST client.
MapId(item) == IF ".id" \in DOMAIN item THEN ("id" :> item[".id"]) @@ item ELSE item

\* data.map(normalizeLegacyObject)
NormalizeLegacy(data) == [i \in 1..Len(data) |-> NormalizeLegacyObject(data[i])]

\* response.data.map(mapId)
NormalizeRest(data) == [i \in 1..Len(data) |-> MapId(data[i])]

\* Line 380: e.response && e.response.data ? (data.message || data.detail) : e.message
GenCatchMessage(e) ==
    IF e.response.has /\ e.response.v.data.has
    THEN (IF TruthyStr(e.response.v.data.v.message) THEN e.response.v.data.v.message
          ELSE e.response.v.data.v.detail)
    ELSE Some(e.message)

\* An object as res.json writes it: a member whose value is undefined is left out.
JsonMessage(msg) == IF msg.has THEN [message |-> msg.v] ELSE NoFields

\* Lines 377-382.
GenCatch(p, r, e) ==
    Respond(p, [r EXCEPT !.err = Some(e)], IF e.response.has THEN e.response.v.status ELSE 500,
            JsonMessage(GenCatchMessage(e)))

\* Replies of the device to a legacy sentence cmd with ?key=value arguments filter.
LegacyCommandReplies(cmd, params, filter, f) ==
    IF cmd = <<"/", "ip", "/", "route", "/", "print">> THEN LegacyPrintReplies(Find(routes, filter), f)
    ELSE IF cmd = <<"/", "ip", "/", "route", "/", "set">> /\ ".id" \in DOMAIN params
    THEN LegacyItemReplies(HasId(routes, params[".id"]), f)
    ELSE {Err(LegacyTrap)}

\* Replies of the device to a REST request with URL query parameters filter.
RestRequestReplies(method, url, data, filter, f) ==
    IF method = "GET" /\ url = <<"/", "ip", "/", "route">> THEN RestGetReplies(Find(routes, filter), f)
    ELSE IF method = "POST" /\ url = <<"/", "ip", "/", "route", "/", "set">> /\ ".id" \in DOMAIN data
    THEN RestItemReplies(HasId(routes, data[".id"]), f)
    ELSE {Err(RestError(404, d)) : d \in RestErrorBodies}

\* Effect of an accepted /ip/route/set.
RouteSet(params) ==
    IF "disabled" \in DOMAIN params
    THEN SetField(routes, params[".id"], "disabled", DeviceBool(params["disabled"]))
    ELSE routes

\* The generic handler as it is entered; io counts the calls made to the router, sent is
\* the command or HTTP request handed to the client, err the exception caught.
GenCall(g) ==
    [pc |-> IF api = "legacy" THEN "connect" ELSE "gCmd", kind |-> "generic", body |-> g,
     found |-> <<>>, fault |-> 0, conn |-> FALSE, resp |-> None, sends |-> 0, io |-> 0, sent |-> None,
     err |-> None]

\* getRouter answers by itself: the handler is not entered.
Reject(p, r) ==
    /\ last' = [r EXCEPT !.pc = "done"]
    /\ prev' = Brief(last)
    /\ UNCHANGED <<req, faults>>

\* Request g arrives: getRouter, then the handler up to its first await.
GenEnter(p, g) ==
    /\ req[p] = Idle
    /\ \E d \in DirectoryReplies(g.routerId) :
         LET o == GetRouter(d)
         IN  IF o.next THEN Begin(p, GenCall(g))
             ELSE Reject(p, Send(GenCall(g), o.status, o.body))
    /\ calls' = calls + 1
    /\ UNCHANGED <<api, tz, now, devVars, pureVars>>

GenStart(p) == \E g \in GenericRequests : GenEnter(p, g)

GenStartAny(p) == \E g \in GatewayRequests : GenEnter(p, g)

GenConnectLegacy(p) ==
    /\ api = "legacy" /\ At(p, "generic", "connect")
    /\ LET r == [req[p] EXCEPT !.io = @ + 1]
       IN  \/ ConnectOk(p, r, "gCmd")
           \/ /\ MayFail(r)
              /\ GenCatch(p, ConnectThrows(r), LegacyFault)
              /\ UNCHANGED devVars
    /\ UNCHANGED fixedVars

\* Lines 355-362: the command and the response; close() follows at the next await.
GenCommandLegacy(p) ==
    /\ api = "legacy" /\ At(p, "generic", "gCmd")
    /\ LET g == req[p].body
           cmd == <<"/">> \o g.endpoint
           params == LegacyParams(g.method, g.body)
           filter == QueryArgs(g.query)
           r == [req[p] EXCEPT !.io = @ + 1,
                               !.sent = Some([cmd |-> cmd, params |-> params, filter |-> filter])]
       IN  IF g.method = "POST" /\ TruthyObj(g.body)
           THEN \E o \in LegacyCommandReplies(cmd, params.v, filter, MayFail(r)) :
                  IF o.ok
                  THEN /\ routes' = RouteSet(params.v)
                       /\ Goto(p, [Send(r, 200, [message |-> <<"Command executed">>]) EXCEPT !.pc = "close"])
                  ELSE /\ GenCatch(p, [r EXCEPT !.fault = @ + 1], o.error)
                       /\ UNCHANGED routes
           ELSE \E raw \in LegacyCommandReplies(cmd, NoFields, filter, MayFail(r)) :
                  LET o == WriteLegacySafe(raw)
                  IN  /\ IF o.ok
                         THEN Goto(p, [Send(r, 200, NormalizeLegacy(o.data))
                                          EXCEPT !.pc = "close"])
                         ELSE GenCatch(p, [r EXCEPT !.fault = @ + 1], o.error)
                      /\ UNCHANGED routes
    /\ UNCHANGED <<addressList, queues, scheds, sessions, nextId, fixedVars>>

\* await client.close() after the response went out: line 363.
GenCloseLegacy(p) ==
    /\ api = "legacy" /\ At(p, "generic", "close")
    /\ LET r == [req[p] EXCEPT !.io = @ + 1]
       IN  \E o \in {Ok(<<>>)} \cup Faults(MayFail(r), LegacyFault) :
             IF o.ok
             THEN /\ sessions' = sessions - 1
                  /\ Return(p, [r EXCEPT !.conn = FALSE])
             ELSE /\ GenCatch(p, [r EXCEPT !.fault = @ + 1], o.error)
                  /\ UNCHANGED sessions
    /\ UNCHANGED <<addressList, queues, scheds, routes, nextId, fixedVars>>

\* Lines 365-375.
GenRequestRest(p) ==
    /\ api = "rest" /\ At(p, "generic", "gCmd")
    /\ LET g == req[p].body
           url == <<"/">> \o FinalEndpoint(g.method, g.endpoint)
           filter == QueryArgs(g.query)
           r == [req[p] EXCEPT !.io = @ + 1,
                               !.sent = Some([method |-> g.method, url |-> url, data |-> g.body,
                                              filter |-> filter])]
       IN  \E o \in RestRequestReplies(g.method, url, g.body.v, filter, MayFail(r)) :
             IF o.ok
             THEN /\ routes' = IF g.method = "POST" THEN RouteSet(g.body.v) ELSE routes
                  /\ Respond(p, r, 200, NormalizeRest(o.data))
             ELSE /\ GenCatch(p, [r EXCEPT !.fault = @ + 1], o.error)
                  /\ UNCHANGED routes
    /\ UNCHANGED <<addressList, queues, scheds, sessions, nextId, fixedVars>>

\* ------------------------------------------------ interface/stats
\* What the device holds under /interface, as it prints it.
Interfaces ==
    <<(".id" :> ItemId(1)) @@ ("name" :> "ether1") @@ ("rx_byte" :> "10"),
      (".id" :> ItemId(2)) @@ ("name" :> "ether2") @@ ("rx_byte" :> "0")>>

\* thrown holds the exception that left the inner try, while finally runs.
StatsCall ==
    [pc |-> IF api = "legacy" THEN "connect" ELSE "ifPrint", kind |-> "stats", body |-> None,
     found |-> <<>>, fault |-> 0, conn |-> FALSE, resp |-> None, sends |-> 0, thrown |-> None]

\* catch (e) of the handler: lines 163-166.
StatsCatch(p, r, e) == Respond(p, r, 500, [message |-> e.message])

StatsStart(p) ==
    /\ req[p] = Idle
    /\ Begin(p, StatsCall)
    /\ calls' = calls + 1
    /\ UNCHANGED <<api, tz, now, devVars, pureVars>>

StatsConnectLegacy(p) ==
    /\ api = "legacy" /\ At(p, "stats", "connect")
    /\ \/ ConnectOk(p, req[p], "ifPrint")
       \/ /\ MayFail(req[p])
          /\ StatsCatch(p, ConnectThrows(req[p]), LegacyFault)
          /\ UNCHANGED devVars
    /\ UNCHANGED fixedVars

\* The inner try, lines 153-155: the print and the response; finally follows either way.
StatsPrintLegacy(p) ==
    /\ api = "legacy" /\ At(p, "stats", "ifPrint")
    /\ \E raw \in LegacyPrintReplies(Interfaces, MayFail(req[p])) :
         LET o == WriteLegacySafe(raw)
         IN  IF o.ok
             THEN Goto(p, [Send(req[p], 200, NormalizeLegacy(o.data)) EXCEPT !.pc = "close"])
             ELSE Goto(p, [req[p] EXCEPT !.fault = @ + 1, !.thrown = Some(o.error), !.pc = "close"])
    /\ UNCHANGED <<devVars, fixedVars>>

\* finally { await client.close() }, lines 156-158: an exception of close() replaces the
\* pending one; otherwise the pending one, if any, goes on to the catch.
StatsCloseLegacy(p) ==
    /\ api = "legacy" /\ At(p, "stats", "close")
    /\ LET r == req[p]
       IN  \E o \in {Ok(<<>>)} \cup Faults(MayFail(r), LegacyFault) :
             IF o.ok
             THEN /\ sessions' = sessions - 1
                  /\ IF r.thrown.has
                     THEN StatsCatch(p, [r EXCEPT !.conn = FALSE], r.thrown.v)
                     ELSE Return(p, [r EXCEPT !.conn = FALSE])
             ELSE /\ StatsCatch(p, [r EXCEPT !.fault = @ + 1], o.error)
                  /\ UNCHANGED sessions
    /\ UNCHANGED <<addressList, queues, scheds, routes, nextId, fixedVars>>

\* Lines 160-161.
StatsPostRest(p) ==
    /\ api = "rest" /\ At(p, "stats", "ifPrint")
    /\ \E o \in RestPutReplies(MayFail(req[p])) :
         IF o.ok
         THEN Respond(p, req[p], 200, NormalizeRest(Interfaces))
         ELSE StatsCatch(p, [req[p] EXCEPT !.fault = @ + 1], o.error)
    /\ UNCHANGED <<devVars, fixedVars>>

\* ------------------------------------------------ the gateway
DeviceInit ==
    /\ addressList = InitAddressList
    /\ queues = <<>>
    /\ scheds = <<>>
    /\ routes \in RouteConfigs
    /\ sessions = 0
    /\ nextId = FirstFreeId

GatewayInit ==
    /\ api \in {"legacy", "rest"}
    /\ tz = ServerZone
    /\ now = CHOOSE t \in Nows : \A u \in Nows : t <= u
    /\ req = [p \in Slots |-> Idle]
    /\ last = NoCall
    /\ prev = NoCall
    /\ calls = 0
    /\ faults = 0

Init ==
    /\ DeviceInit
    /\ GatewayInit
    /\ fn = "none" /\ pin = None /\ pout = None

\* One await of the handler in slot p.
Await(p) ==
    \/ UpdConnectLegacy(p) \/ UpdAlPrintLegacy(p) \/ UpdAlSetLegacy(p) \/ UpdQPrintLegacy(p)
    \/ UpdQSetLegacy(p) \/ UpdQAddLegacy(p) \/ UpdSPrintLegacy(p) \/ UpdSRemoveLegacy(p)
    \/ UpdSAddLegacy(p) \/ UpdCloseLegacy(p)
    \/ UpdAlGetRest(p) \/ UpdAlPatchRest(p) \/ UpdQGetRest(p) \/ UpdQPatchRest(p)
    \/ UpdQPutRest(p) \/ UpdSGetRest(p) \/ UpdSDeleteRest(p) \/ UpdSPutRest(p)
    \/ StatConnectLegacy(p) \/ StatPrintLegacy(p) \/ StatCloseLegacy(p) \/ StatGetRest(p)
    \/ TogConnectLegacy(p) \/ TogPrintLegacy(p) \/ TogSetLegacy(p) \/ TogCloseLegacy(p)
    \/ TogGetRest(p) \/ TogPatchRest(p)
    \/ GenConnectLegacy(p) \/ GenCommandLegacy(p) \/ GenCloseLegacy(p) \/ GenRequestRest(p)

\* A request is routed to its handler, which runs in the first free slot.
Admit(p) == calls < MaxRaceCalls /\ req[p] = Idle /\ \A q \in Slots : q < p => req[q] # Idle

\* Requests arrive at any time: handlers interleave at their awaits.
Next ==
    \E p \in Slots :
        \/ Admit(p) /\ UpdStart(p)
        \/ Admit(p) /\ StatStart(p)
        \/ Admit(p) /\ TogStart(p)
        \/ Admit(p) /\ GenStart(p)
        \/ Await(p)

Spec == Init /\ [][Next]_vars

\* The caller sends a request only when no handler is running.
AdmitSerial(p) == calls < MaxCalls /\ p = 1 /\ \A q \in Slots : req[q] = Idle

NextSerial ==
    \E p \in Slots :
        \/ AdmitSerial(p) /\ UpdStart(p)
        \/ AdmitSerial(p) /\ StatStart(p)
        \/ AdmitSerial(p) /\ TogStart(p)
        \/ AdmitSerial(p) /\ GenStart(p)
        \/ Await(p)

SpecSerial == Init /\ [][NextSerial]_vars

\* Requests to the generic endpoint and to interface/stats, one at a time.
AdmitGateway(p) == calls < MaxGatewayCalls /\ p = 1 /\ \A q \in Slots : req[q] = Idle

NextGateway ==
    \E p \in Slots :
        \/ AdmitGateway(p) /\ GenStartAny(p)
        \/ GenConnectLegacy(p) \/ GenCommandLegacy(p) \/ GenCloseLegacy(p) \/ GenRequestRest(p)
        \/ AdmitGateway(p) /\ StatsStart(p)
        \/ StatsConnectLegacy(p) \/ StatsPrintLegacy(p) \/ StatsCloseLegacy(p) \/ StatsPostRest(p)

SpecGateway == Init /\ [][NextGateway]_vars

\* ------------------------------------------------ the device running a job's on-event
\* The fixed words of the script of line 202, between which the values are written.
WordRemove == "/ip firewall address-list remove [find where address=\""
WordConnection ==
    "\" and list=\"authorized-dhcp-users\"]; /ip firewall connection remove [find where src-address~\"^"
WordLease == "\"]; :local leaseId [/ip dhcp-server lease find where address=\""
WordAdd == "\"]; if ([:len $leaseId] > 0) do={ /ip firewall address-list add address=\""
WordComment == "\" list=\"pending-dhcp-users\" timeout=1d comment=\""
WordEnd == "\"; }"

\* Position of the first token of text that is tok.
IndexOf(text, tok) ==
    CHOOSE i \in 1..Len(text) : text[i] = tok /\ \A j \in 1..(i - 1) : text[j] # tok

\* The commands the script text spells, in the order the device runs them; none when the
\* text does not begin and end as the script does.
ParseScript(text) ==
    LET c == IndexOf(text, WordConnection)
        l == IndexOf(text, WordLease)
        a == IndexOf(text, WordAdd)
        m == IndexOf(text, WordComment)
    IN  IF text[1] # WordRemove \/ text[Len(text)] # WordEnd THEN <<>> ELSE
        <<[cmd |-> "address-list remove", address |-> SubSeq(text, 2, c - 1),
           list |-> "authorized-dhcp-users"],
          [cmd |-> "connection remove", pattern |-> SubSeq(text, c + 1, l - 1)],
          [cmd |-> "lease find", address |-> SubSeq(text, l + 1, a - 1)],
          [cmd |-> "address-list add", address |-> SubSeq(text, a + 1, m - 1),
           list |-> "pending-dhcp-users", timeout |-> "1d", comment |-> text[m + 1]]>>

\* src-address~"^pattern": the pattern matches from the start of the value, '.' any character.
RegexFromStart(pattern, value) ==
    /\ Len(value) >= Len(pattern)
    /\ \A i \in 1..Len(pattern) : pattern[i] = "." \/ pattern[i] = value[i]

\* Variant: the lease lookup answers every lease.
LeaseFindAny(leases, address) == [i \in 1..Len(leases) |-> leases[i][".id"]]

\* [/ip dhcp-server lease find where address="..."]: the ids of the leases of the address.
LeaseFind(leases, address) ==
    LET found == SelectSeq(leases, LAMBDA e : e["address"] = address)
    IN  [i \in 1..Len(found) |-> found[i][".id"]]

\* One command of the script on device d; leaseId is the script's local variable.
RunCommand(c, d) ==
    IF c.cmd = "address-list remove"
    THEN [d EXCEPT !.addressList =
            SelectSeq(@, LAMBDA e : ~(e["address"] = c.address /\ e["list"] = c.list))]
    ELSE IF c.cmd = "connection remove"
    THEN [d EXCEPT !.connections =
            SelectSeq(@, LAMBDA k : ~RegexFromStart(c.pattern, k["src-address"]))]
    ELSE IF c.cmd = "lease find"
    THEN [d EXCEPT !.leaseId = LeaseFind(d.leases, c.address)]
    ELSE IF Len(d.leaseId) > 0
    THEN [d EXCEPT !.addressList =
            AddItem(@, d.nextId, ("address" :> c.address) @@ ("list" :> c.list)
                                 @@ ("timeout" :> c.timeout) @@ ("comment" :> c.comment)),
                   !.nextId = @ + 1]
    ELSE d

\* The device states the script goes through: before it, and after each command.
RECURSIVE RunScript(_, _)
RunScript(cmds, d) ==
    IF cmds = <<>> THEN <<d>> ELSE <<d>> \o RunScript(Tail(cmds), RunCommand(Head(cmds), d))

Connection(id, src) == (".id" :> ItemId(id)) @@ ("src-address" :> src)
Lease(id, address) == (".id" :> ItemId(id)) @@ ("address" :> address)

\* Device states a job may find: the subscriber authorized once, twice or not at all, with and
\* without leases, with and without connections (one of them from 10.0.0.50).
ScriptDevices ==
    LET a == (CHOOSE s \in Subscribers : s.customerInfo = "alice").address
        b == (CHOOSE s \in Subscribers : s.customerInfo = "bob").address
    IN  [addressList : {InitAddressList,
                        <<AddressEntry(5, a, "authorized-dhcp-users", <<>>),
                          AddressEntry(6, b, "authorized-dhcp-users", <<>>),
                          AddressEntry(7, a, "authorized-dhcp-users", <<>>)>>,
                        <<AddressEntry(6, b, "pending-dhcp-users", <<>>)>>},
         leases : {<<>>, <<Lease(1, a)>>, <<Lease(2, b)>>, <<Lease(1, a), Lease(2, b)>>},
         connections : {<<>>,
                        <<Connection(1, a \o <<":", "8", "0">>),
                          Connection(2, a \o <<"0", ":", "8", "0">>),
                          Connection(3, b \o <<":", "2", "2">>)>>},
         nextId : {FirstFreeId},
         leaseId : {<<>>}]

\* ------------------------------------------------ the two variants side by side
\* One request is served by the legacy variant and then, from the same device state and at the
\* same clock reading, by the REST variant. fn is the phase: an optional earlier call that
\* leaves artifacts on the device, the legacy run, the REST run. pin keeps the device state
\* both runs start from, pout the legacy run and what it left on the device.
InitVariants ==
    /\ DeviceInit /\ routes = <<Route(4, None, "false")>>
    /\ GatewayInit /\ api = "legacy"
    /\ fn = "prepare" /\ pin = None /\ pout = None

AdmitVariants(p) == p = 1 /\ calls = 0 /\ \A q \in Slots : req[q] = Idle

\* The device state of the comparison is fixed.
VarPrepared ==
    /\ fn = "prepare" /\ \A q \in Slots : req[q] = Idle
    /\ fn' = "legacy"
    /\ pin' = Some([addressList |-> addressList, queues |-> queues, scheds |-> scheds,
                    nextId |-> nextId, now |-> now])
    /\ sessions' = 0 /\ calls' = 0 /\ faults' = 0
    /\ last' = NoCall /\ prev' = NoCall
    /\ UNCHANGED <<api, tz, now, addressList, queues, scheds, routes, nextId, req, pout>>

\* The legacy run is over: the router record becomes REST and the device is put back.
VarSwitch ==
    /\ fn = "legacy" /\ last.kind = "update" /\ \A q \in Slots : req[q] = Idle
    /\ fn' = "rest" /\ api' = "rest"
    /\ pout' = Some([call |-> last, addressList |-> addressList, queues |-> queues, scheds |-> scheds])
    /\ addressList' = pin.v.addressList /\ queues' = pin.v.queues /\ scheds' = pin.v.scheds
    /\ nextId' = pin.v.nextId /\ now' = pin.v.now
    /\ sessions' = 0 /\ calls' = 0 /\ faults' = 0
    /\ last' = NoCall /\ prev' = NoCall
    /\ UNCHANGED <<tz, routes, req, pin>>

NextVariants ==
    \/ VarPrepared
    \/ VarSwitch
    \/ \E p \in Slots :
        \/ AdmitVariants(p) /\ UpdStart(p)
        \/ UpdConnectLegacy(p) \/ UpdAlPrintLegacy(p) \/ UpdAlSetLegacy(p) \/ UpdQPrintLegacy(p)
        \/ UpdQSetLegacy(p) \/ UpdQAddLegacy(p) \/ UpdSPrintLegacy(p) \/ UpdSRemoveLegacy(p)
        \/ UpdSAddLegacy(p) \/ UpdCloseLegacy(p)
        \/ UpdAlGetRest(p) \/ UpdAlPatchRest(p) \/ UpdQGetRest(p) \/ UpdQPatchRest(p)
        \/ UpdQPutRest(p) \/ UpdSGetRest(p) \/ UpdSDeleteRest(p) \/ UpdSPutRest(p)

SpecVariants == InitVariants /\ [][NextVariants]_vars

\* ------------------------------------------------ update calls on a device already set up
\* The device holds queues and jobs when the first request arrives: made by hand, by an
\* earlier installation, or by racing requests (which leave two jobs of one name).
MaxPresetCalls == 2

PresetQueue(id, name, target, limit) ==
    (".id" :> ItemId(id)) @@ ("name" :> name) @@ ("target" :> target)
    @@ ("max-limit" :> LimitString(limit))

PresetJob(id, sub) ==
    LET t == CHOOSE u \in Nows : \A v \in Nows : u <= v
    IN  (".id" :> ItemId(id)) @@ ("name" :> SchedName(sub.address))
        @@ ("start-date" :> RosDate(t, ServerZone)) @@ ("start-time" :> RosTime(t, ServerZone))
        @@ ("interval" :> "0s") @@ ("on-event" :> OnEvent(sub.address, sub.macAddress))

\* No queue; or another queue and alice's queue, bound to the address bob has now.
PresetQueues ==
    LET b == CHOOSE s \in Subscribers : s.customerInfo = "bob"
    IN  {<<>>,
         <<PresetQueue(6, "carol", b.address, 5), PresetQueue(7, "alice", b.address, 5)>>}

\* No job, one job of alice, or two jobs of alice around one of bob.
PresetJobs ==
    LET a == CHOOSE s \in Subscribers : s.customerInfo = "alice"
        b == CHOOSE s \in Subscribers : s.customerInfo = "bob"
    IN  {<<>>, <<PresetJob(8, a)>>, <<PresetJob(7, a), PresetJob(8, b), PresetJob(9, a)>>}

InitPreset ==
    /\ addressList = InitAddressList
    /\ queues \in PresetQueues
    /\ scheds \in PresetJobs
    /\ routes = <<Route(4, None, "false")>>
    /\ sessions = 0
    /\ nextId = FirstFreeId
    /\ GatewayInit
    /\ fn = "none" /\ pin = None /\ pout = None

AdmitPreset(p) == calls < MaxPresetCalls /\ p = 1 /\ \A q \in Slots : req[q] = Idle

NextPreset ==
    \E p \in Slots :
        \/ AdmitPreset(p) /\ UpdStart(p)
        \/ UpdConnectLegacy(p) \/ UpdAlPrintLegacy(p) \/ UpdAlSetLegacy(p) \/ UpdQPrintLegacy(p)
        \/ UpdQSetLegacy(p) \/ UpdQAddLegacy(p) \/ UpdSPrintLegacy(p) \/ UpdSRemoveLegacy(p)
        \/ UpdSAddLegacy(p) \/ UpdCloseLegacy(p)
        \/ UpdAlGetRest(p) \/ UpdAlPatchRest(p) \/ UpdQGetRest(p) \/ UpdQPatchRest(p)
        \/ UpdQPutRest(p) \/ UpdSGetRest(p) \/ UpdSDeleteRest(p) \/ UpdSPutRest(p)

SpecPreset == InitPreset /\ [][NextPreset]_vars

\* ------------------------------------------------ the failover endpoints on their own
\* Toggle and status requests, one at a time, on a device that reports the disabled flag in
\* canonical text or as it was written.
InitRoundTrip ==
    /\ DeviceInit
    /\ GatewayInit
    /\ fn \in {"canonical", "asWritten"} /\ pin = None /\ pout = None

NextRoundTrip ==
    \E p \in Slots :
        \/ AdmitSerial(p) /\ StatStart(p)
        \/ AdmitSerial(p) /\ TogStart(p)
        \/ StatConnectLegacy(p) \/ StatPrintLegacy(p) \/ StatCloseLegacy(p) \/ StatGetRest(p)
        \/ TogConnectLegacy(p) \/ TogPrintLegacy(p) \/ TogSetLegacy(p) \/ TogCloseLegacy(p)
        \/ TogGetRest(p) \/ TogPatchRest(p)

SpecRoundTrip == InitRoundTrip /\ [][NextRoundTrip]_vars

\* ------------------------------------------------ the functions on their own
PureExpirationInputs == [in : ExpiryInputs, now : Nows, tz : Zones]

WriteErrors ==
    [errno : {"UNKNOWNREPLY", "SOCKTMOUT", "CANTLOGIN"},
     message : {<<"unknown reply: ", EmptyMarker>>, <<"Timed out after 15 seconds">>, <<>>},
     response : {None},
     object : {1, 2}]

WriteResults == {<<>>} \cup RouteConfigs \cup {<<Route(7, Some("ping"), "false")>>}

PureWriteInputs == {Ok(d) : d \in WriteResults} \cup {Err(e) : e \in WriteErrors}

\* Payload entities as the clients hand them over: field name to text value.
Entities ==
    {(".id" :> "*1") @@ ("rx_byte" :> "10") @@ ("check-gateway" :> "ping"),
     (".id" :> "*2") @@ ("name" :> "ether1"),
     (".id" :> "") @@ ("name" :> "ether2"),
     ("tx_byte_rate" :> "5") @@ ("comment" :> "a_b")}

RECURSIVE SeqsUpTo(_, _)
SeqsUpTo(S, n) ==
    IF n = 0 THEN {<<>>}
    ELSE SeqsUpTo(S, n - 1) \cup {Append(q, e) : q \in {t \in SeqsUpTo(S, n - 1) : Len(t) = n - 1}, e \in S}

PureNormalizeInputs == SeqsUpTo(Entities, MaxItems)

PureScriptInputs == [sub : Subscribers, dev : ScriptDevices]

\* Expiration instants (early, midday and late in the UTC day, at a month's end and in
\* mid-month) and server zones east of, west of and at UTC.
LeaseInstants ==
    {d * SecPerDay + s : d \in {40, 58, 364},
                         s \in {0, 3 * 3600 + 59 * 60 + 59, 12 * 3600, 20 * 3600 + 5 * 60 + 40,
                                SecPerDay - 1}}
PureLeaseInputs == [expiresAt : LeaseInstants, tz : Zones \cup {0}, body : UpdateBodies]

\* Address texts over digits, letters, '.', ':' and '/'.
AddressAlphabet == {"1", "a", "Z", ".", ":", "/"}
PureAddressInputs == SeqsUpTo(AddressAlphabet, MaxAddressLen)

PureInit ==
    /\ DeviceInit /\ routes = <<Route(4, None, "false")>>
    /\ GatewayInit /\ api = "legacy"
    /\ \/ fn = "expiration" /\ pin \in PureExpirationInputs
       \/ fn = "writeLegacySafe" /\ pin \in PureWriteInputs
       \/ fn \in {"normalizeLegacy", "normalizeRest"} /\ pin \in PureNormalizeInputs
       \/ fn = "onEvent" /\ pin \in PureScriptInputs
       \/ fn = "schedName" /\ pin \in PureAddressInputs
       \/ fn = "leaseState" /\ pin \in PureLeaseInputs
    /\ pout = None

EvalExpiration ==
    /\ fn = "expiration" /\ pout = None
    /\ pout' = Some(Expiration(pin.in, pin.now, pin.tz))
    /\ UNCHANGED <<api, tz, now, devVars, req, last, prev, calls, faults, fn, pin>>

EvalWriteLegacySafe ==
    /\ fn = "writeLegacySafe" /\ pout = None
    /\ pout' = Some(WriteLegacySafe(pin))
    /\ UNCHANGED <<api, tz, now, devVars, req, last, prev, calls, faults, fn, pin>>

EvalNormalizeLegacy ==
    /\ fn = "normalizeLegacy" /\ pout = None
    /\ pout' = Some(NormalizeLegacy(pin))
    /\ UNCHANGED <<api, tz, now, devVars, req, last, prev, calls, faults, fn, pin>>

EvalNormalizeRest ==
    /\ fn = "normalizeRest" /\ pout = None
    /\ pout' = Some(NormalizeRest(pin))
    /\ UNCHANGED <<api, tz, now, devVars, req, last, prev, calls, faults, fn, pin>>

\* The job of subscriber pin.sub fires on device pin.dev.
EvalOnEvent ==
    /\ fn = "onEvent" /\ pout = None
    /\ pout' = Some(RunScript(ParseScript(OnEvent(pin.sub.address, pin.sub.macAddress)), pin.dev))
    /\ UNCHANGED <<api, tz, now, devVars, req, last, prev, calls, faults, fn, pin>>

EvalSchedName ==
    /\ fn = "schedName" /\ pout = None
    /\ pout' = Some(SchedName(pin))
    /\ UNCHANGED <<api, tz, now, devVars, req, last, prev, calls, faults, fn, pin>>

\* Lines 192-205: the comment payload and the job's start, both from expiresAt.
EvalLeaseState ==
    /\ fn = "leaseState" /\ pout = None
    /\ pout' = Some([commentData |-> CommentData(pin.body, pin.expiresAt),
                     rosDate |-> RosDate(pin.expiresAt, pin.tz),
                     rosTime |-> RosTime(pin.expiresAt, pin.tz)])
    /\ UNCHANGED <<api, tz, now, devVars, req, last, prev, calls, faults, fn, pin>>

NextPure ==
    \/ EvalExpiration \/ EvalWriteLegacySafe \/ EvalNormalizeLegacy \/ EvalNormalizeRest
    \/ EvalOnEvent \/ EvalSchedName \/ EvalLeaseState

SpecPure == PureInit /\ [][NextPure]_vars

\* ------------------------------------------------ properties
AllIdle == \A q \in Slots : req[q] = Idle

Succeeded(c) == c.resp.has /\ c.resp.v.status = 200

JobsNamed(name) == Find(scheds, ("name" :> name))
QueuesNamed(name) == Find(queues, ("name" :> name))

\* C1: after two update calls in succession for the same subscriber address, neither of which
\* saw a device call fail, the device holds exactly one scheduler job named
\* deactivate-dhcp-<address>, and its start-date and start-time are those of the second call.
C1_UpsertIdempotent ==
    (/\ AllIdle
     /\ last.kind = "update" /\ prev.kind = "update"
     /\ last.body.sub.address = prev.body.sub.address
     /\ last.fault = 0 /\ prev.fault = 0)
    => LET jobs == JobsNamed(SchedName(last.body.sub.address))
       IN  /\ Len(jobs) = 1
           /\ jobs[1]["start-date"] = RosDate(last.expiresAt, tz)
           /\ jobs[1]["start-time"] = RosTime(last.expiresAt, tz)

C1_Witness ==
    /\ AllIdle
    /\ last.kind = "update" /\ prev.kind = "update"
    /\ last.body.sub.address = prev.body.sub.address
    /\ last.fault = 0 /\ prev.fault = 0
    /\ Succeeded(last)
    /\ RosDate(last.expiresAt, tz) # RosDate(prev.expiresAt, tz)
    /\ Len(JobsNamed(SchedName(last.body.sub.address))) = 1

\* C2: when update calls do not overlap, every reachable device state has at most one
\* scheduler job per job name, at most one authorized-dhcp-users entry per address and at
\* most one simple queue per subscriber name.
C2_NoDuplicates ==
    /\ \A i, j \in 1..Len(scheds) : scheds[i]["name"] = scheds[j]["name"] => i = j
    /\ \A i, j \in 1..Len(queues) : queues[i]["name"] = queues[j]["name"] => i = j
    /\ \A i, j \in 1..Len(addressList) :
          (/\ addressList[i]["list"] = "authorized-dhcp-users"
           /\ addressList[j]["list"] = "authorized-dhcp-users"
           /\ addressList[i]["address"] = addressList[j]["address"]) => i = j

C2_Witness ==
    /\ AllIdle
    /\ last.kind = "update" /\ prev.kind = "update"
    /\ Succeeded(last) /\ last.fault = 0 /\ prev.fault = 0
    /\ last.body.sub # prev.body.sub
    /\ Len(scheds) = 2 /\ Len(queues) = 2

\* C3: when two update calls for the same subscriber both look up the scheduler job (or the
\* queue) before either writes, and the device accepts a second item of the same name, the
\* device ends with two scheduler jobs (two queues) of the same name.
C3_RaceDuplicates ==
    (/\ AllIdle
     /\ last.kind = "update" /\ prev.kind = "update"
     /\ last.body.sub = prev.body.sub
     /\ last.fault = 0 /\ prev.fault = 0)
    => /\ (last.sFound = 0 /\ prev.sFound = 0)
            => Len(JobsNamed(SchedName(last.body.sub.address))) >= 2
       /\ (last.qAct = "add" /\ prev.qAct = "add")
            => Len(QueuesNamed(last.body.sub.customerInfo)) >= 2

C3_Witness ==
    /\ AllIdle
    /\ last.kind = "update" /\ prev.kind = "update"
    /\ last.body.sub = prev.body.sub
    /\ last.fault = 0 /\ prev.fault = 0
    /\ last.sFound = 0 /\ prev.sFound = 0
    /\ last.qAct = "add" /\ prev.qAct = "add"
    /\ Len(JobsNamed(SchedName(last.body.sub.address))) = 2
    /\ Len(QueuesNamed(last.body.sub.customerInfo)) = 2

\* C4: every call of the generic gateway endpoint on a legacy router has closed the session
\* it opened by the time the handler returns, on every exit path.
C4_SessionClosed ==
    (api = "legacy" /\ last.kind = "generic") => ~last.conn

\* C5: an update with speedLimit N when no queue of the subscriber's name exists creates
\* exactly one queue with max-limit "NM/NM" and target the subscriber address; a following
\* update with speedLimit M for that subscriber sets the same queue's max-limit to "MM/MM"
\* and leaves one queue of that name.
C5_RateLimitUpsert ==
    (AllIdle /\ last.kind = "update" /\ last.fault = 0 /\ last.body.speedLimit.has)
    => LET qs == QueuesNamed(last.body.sub.customerInfo)
           n == last.body.speedLimit.v
       IN  /\ last.qAct = "add"
                => /\ Len(qs) = 1
                   /\ qs[1][".id"] = last.qid
                   /\ qs[1]["max-limit"] = <<n, "M", "/", n, "M">>
                   /\ qs[1]["target"] = last.body.sub.address
           /\ (/\ prev.kind = "update" /\ prev.fault = 0 /\ prev.qAct = "add"
               /\ prev.body.sub = last.body.sub)
                => /\ Len(qs) = 1
                   /\ last.qAct = "set"
                   /\ qs[1][".id"] = prev.qid
                   /\ qs[1]["max-limit"] = <<n, "M", "/", n, "M">>

C5_Witness ==
    /\ AllIdle
    /\ last.kind = "update" /\ last.fault = 0 /\ last.body.speedLimit = Some(20)
    /\ prev.kind = "update" /\ prev.fault = 0 /\ prev.qAct = "add"
    /\ prev.body.speedLimit = Some(10)
    /\ prev.body.sub = last.body.sub
    /\ last.qAct = "set"
    /\ Len(queues) = 1 /\ queues[1]["max-limit"] = <<20, "M", "/", 20, "M">>

\* A route that carries a check-gateway probe, on the device.
HasProbe(route) == route["check-gateway"].has /\ route["check-gateway"].v # ""

\* C6: after a successful configure-wan-failover(enabled = e), every route that carries a
\* check-gateway probe has its disabled flag equal to the complement of e.
C6_FailoverToggle ==
    (AllIdle /\ last.kind = "toggle" /\ last.fault = 0 /\ Succeeded(last))
    => \A i \in 1..Len(routes) :
          HasProbe(routes[i])
            => routes[i]["disabled"] = (IF last.body.enabled THEN "false" ELSE "true")

C6_Witness ==
    /\ AllIdle
    /\ prev.kind = "toggle" /\ prev.fault = 0 /\ prev.body.enabled
    /\ last.kind = "toggle" /\ last.fault = 0 /\ ~last.body.enabled /\ Succeeded(last)
    /\ Cardinality({i \in 1..Len(routes) : HasProbe(routes[i]) /\ routes[i]["disabled"] = "true"}) = 3

\* C7: wan-failover-status answers enabled = true exactly when at least one route carrying a
\* check-gateway probe is not disabled; routes without a probe do not count.
C7_FailoverStatus ==
    (AllIdle /\ last.kind = "status" /\ Succeeded(last))
    => (last.resp.v.body.enabled
          <=> \E i \in 1..Len(routes) : HasProbe(routes[i]) /\ routes[i]["disabled"] = "false")

C7_Witness ==
    /\ AllIdle
    /\ last.kind = "status" /\ Succeeded(last)
    /\ ~last.resp.v.body.enabled
    /\ \E i \in 1..Len(routes) : HasProbe(routes[i])
    /\ \E i \in 1..Len(routes) : ~HasProbe(routes[i]) /\ routes[i]["disabled"] = "false"

\* C8: the expiration is decided by exactly one of the four branches for every combination
\* of inputs, and when manualExpiresAt is present the result is that timestamp, whatever the
\* other inputs are.
C8_ExpirationPrecedence ==
    (fn = "expiration" /\ pout.has)
    => /\ pout.v.branch \in 1..4
       /\ pout.v.expiresAt \in Nat
       /\ pin.in.manualExpiresAt.has
            => /\ pout.v.branch = 1
               /\ IsoDateTime(pout.v.expiresAt) = pin.in.manualExpiresAt.v
       /\ ~pin.in.manualExpiresAt.has => pout.v.branch # 1

C8_Witness ==
    /\ fn = "expiration" /\ pout.has
    /\ pin.in.manualExpiresAt.has /\ pin.in.graceDays = Some(2) /\ pin.in.graceTime.has
    /\ pin.in.plan.has
    /\ pout.v.branch = 1

\* The time of day a graceTime text HH:MM names, in seconds.
GraceSeconds(text) ==
    (10 * DigitVal(text[1]) + DigitVal(text[2])) * 3600
    + (10 * DigitVal(text[4]) + DigitVal(text[5])) * 60

\* C9: whenever manualExpiresAt is absent and graceDays is supplied (0 included), the
\* expiration is the current date at graceTime (the current time when no graceTime is given)
\* plus graceDays full days, even when a plan with cycle_days is supplied.
C9_GracePeriod ==
    (fn = "expiration" /\ pout.has /\ ~pin.in.manualExpiresAt.has /\ pin.in.graceDays.has)
    => pout.v.expiresAt =
          (IF pin.in.graceTime.has
           THEN ((pin.now + pin.tz) \div SecPerDay) * SecPerDay + GraceSeconds(pin.in.graceTime.v)
                - pin.tz
           ELSE pin.now)
          + pin.in.graceDays.v * SecPerDay

\* The empty-result marker of the legacy client: an unknown reply that names !empty.
CarriesEmptyMarker(error) ==
    error.errno = "UNKNOWNREPLY" /\ \E i \in DOMAIN error.message : error.message[i] = "!empty"

\* C10: writeLegacySafe returns the empty sequence when the client's write fails with an
\* error carrying the empty-result marker, rethrows every other error unchanged, and returns
\* the client's result unchanged on success.
C10_SafeExecutor ==
    (fn = "writeLegacySafe" /\ pout.has)
    => IF pin.ok THEN pout.v = pin
       ELSE IF CarriesEmptyMarker(pin.error) THEN pout.v.ok /\ pout.v.data = <<>>
       ELSE ~pout.v.ok /\ pout.v.error = pin.error

C10_Witness ==
    /\ fn = "writeLegacySafe" /\ pout.has
    /\ ~pin.ok /\ CarriesEmptyMarker(pin.error)
    /\ pout.v = [ok |-> TRUE, data |-> <<>>]

HasUnderscore(k) == \E i \in 1..Len(k) : SubSeq(k, i, i) = "_"

\* k2 is k with every underscore turned into a hyphen.
Hyphenated(k, k2) ==
    /\ Len(k2) = Len(k)
    /\ \A i \in 1..Len(k) :
          SubSeq(k2, i, i) = (IF SubSeq(k, i, i) = "_" THEN "-" ELSE SubSeq(k, i, i))

\* C11: the legacy normalizer rewrites every underscore of every field name to a hyphen and
\* keeps every value; the REST normalizer keeps every field name and value; both return a
\* sequence of the same length whose i-th entity comes from the i-th input entity; neither
\* adds a field other than id.
C11_NormalizerFieldNames ==
    /\ (fn = "normalizeLegacy" /\ pout.has)
       => /\ Len(pout.v) = Len(pin)
          /\ \A i \in 1..Len(pin) :
                /\ \A k \in DOMAIN pin[i] :
                      \E k2 \in DOMAIN pout.v[i] : Hyphenated(k, k2) /\ pout.v[i][k2] = pin[i][k]
                /\ \A k2 \in DOMAIN pout.v[i] :
                      /\ ~HasUnderscore(k2)
                      /\ k2 = "id" \/ \E k \in DOMAIN pin[i] : Hyphenated(k, k2)
    /\ (fn = "normalizeRest" /\ pout.has)
       => /\ Len(pout.v) = Len(pin)
          /\ \A i \in 1..Len(pin) :
                /\ \A k \in DOMAIN pin[i] : k \in DOMAIN pout.v[i] /\ pout.v[i][k] = pin[i][k]
                /\ DOMAIN pout.v[i] \ {"id"} = DOMAIN pin[i]

C11_Witness ==
    /\ fn = "normalizeLegacy" /\ pout.has
    /\ Len(pin) = 2 /\ pin[1] # pin[2]
    /\ "tx_byte_rate" \in DOMAIN pin[1]
    /\ "tx-byte-rate" \in DOMAIN pout.v[1] /\ pout.v[1]["comment"] = "a_b"
    /\ "rx-byte" \in DOMAIN pout.v[2]

\* C12: every payload entity that has a '.id' key, whatever its value, comes out of the
\* legacy normalizer and of the REST normalizer with a field id equal to that value.
C12_CanonicalId ==
    (fn \in {"normalizeLegacy", "normalizeRest"} /\ pout.has)
    => \A i \in 1..Len(pin) :
          ".id" \in DOMAIN pin[i]
          => "id" \in DOMAIN pout.v[i] /\ pout.v[i]["id"] = pin[i][".id"]

\* ------------------------------------------------ properties of the generic gateway
WithoutPrint(e) ==
    IF Len(e) >= 2 /\ SubSeq(e, Len(e) - 1, Len(e)) = <<"/", "print">>
    THEN SubSeq(e, 1, Len(e) - 2) ELSE e

\* C13: on a REST router a GET whose path ends with /print is sent with that one trailing
\* /print removed and every other method and path is sent with the path unchanged; on a
\* legacy router the command is '/' followed by the path, suffix kept.
C13_PathTranslation ==
    (last.kind = "generic" /\ last.sent.has)
    => LET g == last.body
       IN  IF api = "rest"
           THEN last.sent.v.url = <<"/">> \o (IF g.method = "GET" THEN WithoutPrint(g.endpoint)
                                              ELSE g.endpoint)
           ELSE last.sent.v.cmd = <<"/">> \o g.endpoint

C13_Witness ==
    /\ api = "rest" /\ last.kind = "generic" /\ last.sent.has
    /\ last.body.method = "GET"
    /\ last.body.endpoint = <<"ip", "/", "route", "/", "print", "/", "print">>
    /\ last.sent.v.url = <<"/", "ip", "/", "route", "/", "print">>

WriteMethods == {"POST", "PUT", "PATCH", "DELETE"}

\* C14: on a legacy router every write method (POST, PUT, PATCH, DELETE) that carries a
\* request body issues the command with the body as its parameters; a read issues the
\* sentence alone through writeLegacySafe and answers the normalized result sequence.
C14_LegacyWriteDispatch ==
    (api = "legacy" /\ last.kind = "generic" /\ last.sent.has)
    => LET g == last.body
       IN  /\ (g.method \in WriteMethods /\ g.body.v # NoFields) => last.sent.v.params = g.body
           /\ g.method = "GET"
              => /\ last.sent.v.params = None
                 /\ Succeeded(last)
                    => last.resp.v.body = NormalizeLegacy(Find(routes, last.sent.v.filter))

\* C15: every key/value pair of the query string of a read reaches the device as a filter,
\* and the answer holds exactly the entities matching all pairs.
C15_QueryFilter ==
    (last.kind = "generic" /\ last.body.method = "GET" /\ last.sent.has /\ Succeeded(last))
    => /\ last.sent.v.filter = last.body.query
       /\ last.resp.v.body = (IF api = "legacy" THEN NormalizeLegacy(Find(routes, last.body.query))
                              ELSE NormalizeRest(Find(routes, last.body.query)))

\* C16: when a generic gateway call fails, the status is the upstream HTTP status if the
\* error carries an upstream response and 500 otherwise, and the body carries a message: the
\* upstream body's message if present, else its detail, else the exception text.
C16_ErrorMapping ==
    (last.kind = "generic" /\ last.err.has /\ last.sends = 1)
    => LET e == last.err.v
           d == IF e.response.has /\ e.response.v.data.has
                THEN e.response.v.data.v ELSE [message |-> None, detail |-> None]
       IN  /\ last.resp.v.status = (IF e.response.has THEN e.response.v.status ELSE 500)
           /\ "message" \in DOMAIN last.resp.v.body
           /\ last.resp.v.body["message"] =
                 (IF TruthyStr(d.message) THEN d.message.v
                  ELSE IF TruthyStr(d.detail) THEN d.detail.v ELSE e.message)

\* C17: a request whose routerId is in no row of the directory is answered not found, one
\* whose row has an empty host or user is answered with an error, and for neither is a
\* connect, a command or an HTTP request issued to a router.
C17_FailFast ==
    last.kind = "generic"
    => LET id == last.body.routerId
       IN  /\ id \notin DOMAIN Directory
              => last.resp = Some([status |-> 404, body |-> [message |-> <<"Router not found">>]])
           /\ (id \notin DOMAIN Directory \/ Directory[id].host = "" \/ Directory[id].user = "")
              => /\ last.resp.has /\ last.resp.v.status >= 400
                 /\ last.io = 0 /\ last.sent = None /\ ~last.conn

C17_Witness ==
    /\ last.kind = "generic" /\ last.body.routerId = "r3"
    /\ last.resp.has /\ last.resp.v.status = 500
    /\ last.io = 0

\* ------------------------------------------------ properties of the update handler, continued
Authorized(address) ==
    {i \in 1..Len(addressList) : /\ addressList[i]["list"] = "authorized-dhcp-users"
                                 /\ addressList[i]["address"] = address}

\* After an update call in which no device call failed: the authorized entry of the address
\* carries the call's comment payload, or there is none and the call went on and succeeded.
CommentWritten ==
    (AllIdle /\ last.kind = "update" /\ last.fault = 0)
    => LET a == last.body.sub.address
       IN  IF Authorized(a) # {}
           THEN \A i \in Authorized(a) :
                  addressList[i]["comment"] = CommentData(last.body, last.expiresAt)
           ELSE /\ Succeeded(last)
                /\ Len(JobsNamed(SchedName(a))) = 1
                /\ TruthyNum(last.body.speedLimit) => Len(QueuesNamed(last.body.sub.customerInfo)) = 1

\* Every change of the address list is the comment of one authorized entry of the address of a
\* running update call set to that call's payload: no entry is added or removed, no other
\* entry and no other field changes.
CommentFrame ==
    addressList' # addressList
    => \E p \in Slots :
         /\ req[p].pc # "idle" /\ req[p].kind = "update"
         /\ \E i \in Authorized(req[p].body.sub.address) :
              addressList' = [addressList EXCEPT ![i] =
                                [@ EXCEPT !["comment"] = CommentData(req[p].body, req[p].expiresAt)]]

\* C18: in dhcp-client/update an existing authorized-dhcp-users entry of the subscriber
\* address gets the serialized comment payload as its comment and keeps its other fields; when
\* there is none, no address-list entry is created or modified and the call still goes through
\* the queue and scheduler steps and succeeds.
C18_AddressListComment == []CommentWritten /\ [][CommentFrame]_vars

C18_Witness ==
    /\ AllIdle
    /\ last.kind = "update" /\ last.fault = 0 /\ Authorized(last.body.sub.address) # {}
    /\ prev.kind = "update" /\ prev.fault = 0 /\ Authorized(prev.body.sub.address) = {}
    /\ \A i \in Authorized(last.body.sub.address) :
          addressList[i]["comment"] = CommentData(last.body, last.expiresAt)
    /\ \A i \in 1..Len(addressList) :
          i \notin Authorized(last.body.sub.address) => addressList[i] = InitAddressList[i]
    /\ Len(JobsNamed(SchedName(prev.body.sub.address))) = 1

\* Both runs are over, of the same request and with the same device calls failing.
SameRun ==
    /\ fn = "rest" /\ AllIdle /\ last.kind = "update"
    /\ last.body = pout.v.call.body
    /\ last.failed = pout.v.call.failed

\* C19: for the same dhcp-client/update request and the same initial device state, also when
\* individual device calls fail, the legacy variant and the REST variant leave the same
\* scheduler jobs, queues and address-list comments on the device and answer the same outcome.
C19_ProtocolEquivalence ==
    SameRun
    => /\ scheds = pout.v.scheds /\ queues = pout.v.queues /\ addressList = pout.v.addressList
       /\ Succeeded(last) = Succeeded(pout.v.call)

\* ------------------------------------------------ properties of the deactivation script
InList(d, address, list) ==
    \E i \in 1..Len(d.addressList) :
       d.addressList[i]["address"] = address /\ d.addressList[i]["list"] = list

\* The address is in pending-dhcp-users with timeout 1d and the hardware address as comment.
Readded(d, address, macAddress) ==
    \E i \in 1..Len(d.addressList) :
       /\ d.addressList[i]["address"] = address
       /\ d.addressList[i]["list"] = "pending-dhcp-users"
       /\ "timeout" \in DOMAIN d.addressList[i]
       /\ d.addressList[i]["timeout"] = "1d"
       /\ d.addressList[i]["comment"] = macAddress

\* A connection whose source is the address, whatever the port.
FromHost(k, address) ==
    /\ Len(k["src-address"]) > Len(address)
    /\ SubSeq(k["src-address"], 1, Len(address) + 1) = address \o <<":">>

HadLease == \E i \in 1..Len(pin.dev.leases) : pin.dev.leases[i]["address"] = pin.sub.address

\* C20: the on-event script of subscriber address A with hardware address M first removes A
\* from authorized-dhcp-users, then removes the connections, then looks the lease up;
\* afterwards A is not in authorized-dhcp-users, and A is in pending-dhcp-users with timeout
\* 1d and comment M if and only if a DHCP lease of A existed when the script ran.
C20_DeactivationScript ==
    (fn = "onEvent" /\ pout.has)
    => LET A == pin.sub.address
           M == pin.sub.macAddress
           t == pout.v
       IN  /\ Len(t) = 5
           /\ ~InList(t[2], A, "authorized-dhcp-users")
           /\ t[2].connections = pin.dev.connections /\ t[2].leaseId = <<>>
           /\ t[3].addressList = t[2].addressList /\ t[3].leaseId = <<>>
           /\ \A i \in 1..Len(t[3].connections) : ~FromHost(t[3].connections[i], A)
           /\ t[4].addressList = t[3].addressList /\ t[4].connections = t[3].connections
           /\ (Len(t[4].leaseId) > 0) = HadLease
           /\ ~InList(t[5], A, "authorized-dhcp-users")
           /\ Readded(t[5], A, M) = HadLease
           /\ t[5].connections = t[3].connections /\ t[5].leases = pin.dev.leases

C20_Witness ==
    /\ fn = "onEvent" /\ pout.has
    /\ InList(pin.dev, pin.sub.address, "authorized-dhcp-users")
    /\ ~InList(pin.dev, pin.sub.address, "pending-dhcp-users")
    /\ HadLease
    /\ \E i \in 1..Len(pin.dev.connections) : FromHost(pin.dev.connections[i], pin.sub.address)
    /\ Readded(pout.v[5], pin.sub.address, pin.sub.macAddress)
    /\ ~InList(pout.v[5], pin.sub.address, "authorized-dhcp-users")

\* C21: the second command of the on-event script of subscriber address A removes exactly the
\* connections whose source is A: the connections left are those of the device whose source
\* is another host, in their order, one whose source text merely begins with A included.
C21_ConnectionScope ==
    (fn = "onEvent" /\ pout.has)
    => pout.v[3].connections
         = SelectSeq(pin.dev.connections, LAMBDA k : ~FromHost(k, pin.sub.address))

\* ------------------------------------------------ properties of the automation endpoints
AutomationKinds == {"update", "status", "toggle"}

\* C22: on a legacy router every update, status and toggle call has closed the session its
\* connect() opened when the handler has returned, whatever the exit path, a device command
\* that throws midway included; after a single such call no legacy session is open.
C22_ScopedSession ==
    (api = "legacy" /\ last.kind \in AutomationKinds)
    => /\ ~last.conn
       /\ (AllIdle /\ calls = 1) => sessions = 0

\* C23: an update call one of whose device calls failed, on either protocol, is answered with
\* a failure status and the error's message, never with success; and when an update call has
\* been answered with success a scheduler job with the subscriber's job name is on the device.
C23_FailuresSurfaced ==
    (AllIdle /\ last.kind = "update")
    => /\ last.fault > 0
          => /\ last.resp.has /\ last.resp.v.status >= 400
             /\ last.resp.v.body.message \in {LegacyFault.message, RestFault.message,
                                              RestNotFound.message}
       /\ Succeeded(last) => Len(JobsNamed(SchedName(last.body.sub.address))) >= 1

\* ------------------------------------------------ properties of the job name
Alphanumerics == {"0", "1", "2", "3", "4", "5", "6", "7", "8", "9", "a", "Z"}

\* C24: the job name is the fixed prefix followed by the address with every character that is
\* not alphanumeric replaced by '-': the part derived from the address has the length of the
\* address, keeps its alphanumerics and holds nothing but alphanumerics and '-'.
C24_JobName ==
    (fn = "schedName" /\ pout.has)
    => /\ Len(pout.v) = Len(pin) + 1 /\ pout.v[1] = "deactivate-dhcp-"
       /\ \A i \in 1..Len(pin) :
             /\ pout.v[i + 1] \in Alphanumerics \cup {"-"}
             /\ pin[i] \in Alphanumerics => pout.v[i + 1] = pin[i]

\* ------------------------------------------------ properties of the queue step
QueueOf(name) == {i \in 1..Len(queues) : queues[i]["name"] = name}

\* A step that changes the queues while the running update call's subscriber has a queue of
\* its name sets max-limit on one queue of that name: the number of queues, that queue's name
\* and target, and every other queue stay as they are.
QueueFrame ==
    \A p \in Slots :
       (queues' # queues /\ req[p].pc # "idle" /\ req[p].kind = "update"
        /\ QueueOf(req[p].body.sub.customerInfo) # {})
       => \E i \in QueueOf(req[p].body.sub.customerInfo) :
            queues' = [queues EXCEPT ![i] =
                         [@ EXCEPT !["max-limit"] = LimitString(req[p].body.speedLimit.v)]]

\* C25: when dhcp-client/update finds a queue with the subscriber's name it changes only that
\* queue's max-limit: its name and target, every other queue and the number of queues are
\* unchanged, also when the request's address is not the queue's target.
C25_QueueFrame == [][QueueFrame]_vars

C25_Witness ==
    /\ AllIdle /\ last.kind = "update" /\ last.qAct = "set" /\ last.fault = 0
    /\ last.body.sub.customerInfo = "alice"
    /\ Len(queues) = 2
    /\ queues[2]["name"] = "alice" /\ queues[2]["target"] # last.body.sub.address
    /\ queues[2]["max-limit"] = LimitString(last.body.speedLimit.v)
    /\ queues[2]["max-limit"] # LimitString(5)
    /\ queues[1] = PresetQueue(6, "carol", queues[2]["target"], 5)

\* ------------------------------------------------ properties of repeated updates
\* C26: from a device that holds any number of jobs with the subscriber's job name, two or
\* more included, sequential update calls for that subscriber in which no device call fails
\* leave exactly one job of that name.
C26_Convergence ==
    (/\ AllIdle /\ calls = MaxPresetCalls /\ faults = 0
     /\ last.kind = "update" /\ prev.kind = "update" /\ prev.body.sub = last.body.sub)
    => Len(JobsNamed(SchedName(last.body.sub.address))) = 1

\* ------------------------------------------------ properties of the failover toggle, continued
\* C27: when configure-wan-failover has returned, with success or with the error of one of
\* its route writes, either every monitored route was switched by the call and has the flag
\* asked for, or the call switched none; never some of them.
C27_AllOrNothing ==
    (AllIdle /\ last.kind = "toggle")
    => \/ last.wrote = 0
       \/ /\ last.wrote = Len(Monitored(routes))
          /\ \A i \in 1..Len(routes) :
                HasProbe(routes[i]) => routes[i]["disabled"] = JsonBool(~last.body.enabled)

\* C28: on either protocol, with at least one monitored route, a successful
\* configure-wan-failover(enabled = e) followed at once by wan-failover-status is answered
\* enabled = e, whether the device reports the flag as it was written or in canonical text.
C28_RoundTrip ==
    (/\ AllIdle /\ calls = 2
     /\ prev.kind = "toggle" /\ prev.fault = 0
     /\ last.kind = "status" /\ Succeeded(last)
     /\ Len(Monitored(routes)) > 0)
    => last.resp.v.body.enabled = prev.body.enabled

\* ------------------------------------------------ properties of the responses
\* C29: every request to the generic endpoint and to interface/stats is answered and its
\* handler sends exactly one response, on every path; the path on which the success response
\* is out and closing the legacy session then fails included.
C29_OneResponse ==
    (AllIdle /\ last.kind \in {"generic", "stats"})
    => last.resp.has /\ last.sends = 1

\* ------------------------------------------------ properties of the lease dates
\* Value of key in the serialized comment payload.
PayloadValue(payload, key) == CHOOSE i \in 1..Len(payload) : payload[i][1] = key
MonthNumber(name) == CHOOSE m \in 1..12 : months[m] = name

\* The instant a start-date and start-time denote on a clock tz seconds east of UTC.
StartInstant(date, time, zone) ==
    (DaysBeforeYear(date[5]) + DaysBeforeMonth(date[5], MonthNumber(date[1]))
        + FromPad2(date[3]) - 1) * SecPerDay
    + FromPad2(time[1]) * 3600 + FromPad2(time[3]) * 60 + FromPad2(time[5]) - zone

\* C30: for every expiration instant and server zone, dueDate of the comment payload is the
\* calendar date given to the job as start-date, and dueDateTime is the instant that
\* start-date and start-time denote.
C30_LeaseDates ==
    (fn = "leaseState" /\ pout.has)
    => LET c == pout.v.commentData
           dueDate == c[PayloadValue(c, "dueDate")][2]
           dueDateTime == c[PayloadValue(c, "dueDateTime")][2]
           d == pout.v.rosDate
       IN  /\ dueDate[1] = d[5]
           /\ FromPad2(dueDate[3]) = MonthNumber(d[1])
           /\ dueDate[5] = d[3]
           /\ ParseDate(dueDateTime) = StartInstant(d, pout.v.rosTime, pin.tz)

====
